---- MODULE Spec2Model ----
(***************************************************************************)
(* Model of the browser lifecycle layer of prenda.                         *)
(*                                                                         *)
(* The program runs on a single-threaded event loop.  One action of this   *)
(* module is one synchronous run of program code: an API call made by the  *)
(* embedding code, one microtask (the continuation of an await whose       *)
(* promise has been resolved by program code), or one macrotask (a timer,  *)
(* a CDP reply, an exit of a browser OS process).  Macrotasks run only     *)
(* when the microtask queue is empty.  Event listeners run synchronously   *)
(* inside emit; what the listeners of the embedding code do is an input    *)
(* of each action (the record R).                                          *)
(***************************************************************************)
EXTENDS Integers, Sequences, FiniteSets, TLC

\* Bounds of the model.
MaxVersion == 4        \* starts and stops of one BrowserProcess (Spec)
MaxCalls == 5          \* the same where the browser never fails (CallSpec)
MaxAutoVersion == 6    \* the same for the unattended process (AutoSpec)
MaxPending == 3        \* stopImpl calls awaiting the end of a stop run
MaxPromise == 8        \* promise identities of the stop guard

\* ---------------------------------------------------------------------- \*
\* BrowserProcess                                                          *
\* ---------------------------------------------------------------------- \*

BrowserProcessStatus == {"initial", "starting", "running", "stopping", "stopped", "faulted"}

\* What the listeners of the embedding code do when an event is emitted
\* during one synchronous run: nothing, or a call of stop() / start().
Reactions ==
  [starting : {"none", "stop"}, start : {"none", "stop"},
   fault : {"none", "stop", "start"},
   stopping : {"none", "stop"}, stop : {"none", "start", "stop"}]

\* The reactions in which only the listeners of the events in E act.
ReactionsTo(E) ==
  {R \in Reactions : \A e \in DOMAIN R : e \notin E => R[e] = "none"}

BrowserProcessOptions ==
  {[autoRestart |-> TRUE, autoRestartDelayMillis |-> 0,
    retryStartup |-> TRUE, retryStartupDelayMillis |-> 1],
   [autoRestart |-> TRUE, autoRestartDelayMillis |-> 1,
    retryStartup |-> FALSE, retryStartupDelayMillis |-> 0],
   [autoRestart |-> FALSE, autoRestartDelayMillis |-> 0,
    retryStartup |-> TRUE, retryStartupDelayMillis |-> 0]}

\* State of a BrowserProcess after construction.  Besides the fields of the
\* class: the suspended executions of its async methods (starts, bodies,
\* waiters), the microtask queue (mq), the OS processes and CDP connections
\* it has created (alive, listening, connected), and the events and status
\* changes of the current synchronous run (out, trans).  seen: the events
\* of the run in the order in which a listener that was added after the
\* listeners that call start() / stop() has been called with them.
NewBrowserProcess(options) ==
  [options |-> options,
   status |-> "initial", stopReason |-> "none", version |-> 0, startCounter |-> 0,
   client |-> 0, proc |-> 0, guard |-> 0, restartTimeout |-> FALSE,
   starts |-> {}, bodies |-> {}, waiters |-> <<>>, mq |-> <<>>,
   alive |-> {}, listening |-> {}, connected |-> {},
   out |-> <<>>, trans |-> <<>>, react |-> 0, aborted |-> 0, seen |-> <<>>]

\* F applied to the value of e (e is evaluated once).
Then(e, F(_)) == CHOOSE r \in {F(x) : x \in {e}} : TRUE

\* A new synchronous run begins: nothing emitted yet.
Fresh(p) ==
  [p EXCEPT !.out = <<>>, !.trans = <<>>, !.react = 0, !.aborted = 0, !.seen = <<>>]

\* A listener of the embedding code calls start() or stop().
React(p) == [p EXCEPT !.react = @ + 1]

\* this._status = s
SetStatus(this, s) ==
  Then(this, LAMBDA p :
    IF p.status = s THEN p
    ELSE [p EXCEPT !.status = s, !.trans = Append(@, <<p.status, s>>)])

\* this.emit(name, {reason}); `by` is the start attempt (its version) or the
\* stop run (its promise) that emits.
Emit(this, name, reason, by) ==
  Then(this, LAMBDA p :
    [p EXCEPT !.out = Append(@, [name |-> name, reason |-> reason, by |-> by,
                                 version |-> p.version, status |-> p.status,
                                 client |-> p.client, active |-> Cardinality(p.bodies)])])

\* EventEmitter.emit calls the listeners of an event one after the other:
\* the listeners added later are called when those added before them have
\* returned.
Seen(this, name) == [this EXCEPT !.seen = Append(@, name)]

PromisesInUse(p) ==
  {p.guard} \cup {b.promise : b \in p.bodies}
    \cup {p.waiters[i].promise : i \in DOMAIN p.waiters}
    \cup {p.mq[i].promise : i \in DOMAIN p.mq}

\* new PromiseSource()
NewPromise(p) ==
  CHOOSE k \in 1..MaxPromise :
    /\ k \notin PromisesInUse(p)
    /\ \A j \in 1..(k - 1) : j \in PromisesInUse(p)

Waiter(k, first, reason, kind, ws) ==
  [promise |-> k, first |-> first, reason |-> reason, kind |-> kind, wasStarting |-> ws]

Microtask(t, k, ver, w) ==
  [t |-> t, promise |-> k, version |-> ver, first |-> w.first, reason |-> w.reason,
   kind |-> w.kind, wasStarting |-> w.wasStarting]

NoWaiter == Waiter(0, FALSE, "none", "none", FALSE)

\* ReentrancyGuard.run when a run is active: the caller gets the active
\* promise and first = false; stopImpl then awaits it.
Join(this, reason, kind, ws) ==
  Then(this, LAMBDA p :
    [p EXCEPT !.waiters = Append(@, Waiter(p.guard, FALSE, reason, kind, ws))])

\* The .then callback of ReentrancyGuard.run: reset the guard and resolve
\* the promise; the continuations of its awaiters are queued in the order
\* in which they began to await.
GuardReset(this, k, ver) ==
  Then(this, LAMBDA p :
    Then(SelectSeq(p.waiters, LAMBDA w : w.promise = k), LAMBDA woken :
      [p EXCEPT !.guard = 0,
                !.waiters = SelectSeq(@, LAMBDA w : w.promise # k),
                !.mq = @ \o [i \in 1..Len(woken) |->
                               Microtask("resume", k, ver, woken[i])]]))

\* End of the stop body: Stopped, unlock(), return version.  The body's
\* promise settles, which queues the guard's .then callback.
StopBodyEnd(this, k, ver) ==
  [SetStatus(this, "stopped") EXCEPT !.guard = 0,
                                  !.mq = Append(@, Microtask("reset", k, ver, NoWaiter))]

\* The stop body reaches `await this.killProcess(process)`.  killProcess
\* returns at once for a process that has exited: the body then goes on in
\* a microtask.  Otherwise it goes on when the process has been killed.
StopBodyKill(this, b) ==
  Then([this EXCEPT !.bodies = (@ \ {b}) \cup {[b EXCEPT !.pc = "kill"]}], LAMBDA p :
    IF b.proc \in p.alive THEN p
    ELSE [p EXCEPT !.mq = Append(@, Microtask("killed", b.promise, b.version, NoWaiter))])

\* stopImpl up to its first suspension.
stopImpl(this, reason, kind, ws, R) ==
  Then(this, LAMBDA p :
    IF p.guard # 0 THEN Join(p, reason, kind, ws)
    ELSE
      Then(NewPromise(p), LAMBDA k :
        IF p.status = "stopped"
        THEN [p EXCEPT !.guard = k,
                       !.mq = Append(@, Microtask("reset", k, p.version, NoWaiter)),
                       !.waiters = Append(@, Waiter(k, TRUE, reason, kind, ws))]
        ELSE
          Then(Emit(SetStatus([p EXCEPT !.guard = k, !.stopReason = reason], "stopping"),
                    "stopping", reason, k), LAMBDA p2 :
          Then(Seen(IF R.stopping = "stop" /\ p2.guard # 0
                    THEN Join(React(p2), "requested", "stop", FALSE) ELSE p2,
                    "stopping"), LAMBDA p3 :
          Then(p3.version + 1, LAMBDA ver :
          Then([p3 EXCEPT !.version = ver, !.proc = 0, !.client = 0,
                          !.restartTimeout = FALSE,
                          !.listening = @ \ {p3.proc}], LAMBDA p4 :
          Then(IF p3.client # 0
               THEN [p4 EXCEPT !.bodies = @ \cup {[promise |-> k, version |-> ver,
                                 pc |-> "close", proc |-> p3.proc, client |-> p3.client]}]
               ELSE IF p3.proc # 0
               THEN StopBodyKill(p4, [promise |-> k, version |-> ver,
                                      pc |-> "kill", proc |-> p3.proc, client |-> 0])
               ELSE StopBodyEnd(p4, k, ver), LAMBDA p5 :
            [p5 EXCEPT !.waiters = Append(@, Waiter(k, TRUE, reason, kind, ws))])))))))

\* The checks at the head of startImpl: start() returns at once on a Running
\* process and throws LogicError unless the status is Initial or Stopped.
startCheck(status) ==
  IF status = "running" THEN "return"
  ELSE IF status \notin {"initial", "stopped"} THEN "logic_error"
  ELSE "start"

\* startImpl returns or throws at its head; "start()" marks what the caller
\* is given.
startRefused(this) == Emit(this, "start()", startCheck(this.status), 0)

\* onFaulted up to its await of stopImpl.  `by` is the start attempt whose
\* continuation or listener reports the fault.
onFaulted(this, by, R) ==
  Then(this, LAMBDA p :
    Then(Emit(SetStatus(p, "faulted"), "fault", "none", by), LAMBDA p1 :
    Then(Seen(IF R.fault = "stop" THEN stopImpl(React(p1), "requested", "stop", FALSE, R)
              ELSE IF R.fault = "start" THEN startRefused(React(p1))
              ELSE p1, "fault"), LAMBDA p2 :
      IF p2.version # p.version THEN p2
      ELSE stopImpl(p2, "faulted", "fault", p.status = "starting", R))))

\* startImpl that starts whenever the process is not Running.
startImplUnchecked(this, reason, spawnOk, R) ==
  Then(this, LAMBDA p :
    IF startCheck(p.status) = "return" THEN startRefused(p)
    ELSE
      Then(p.version + 1, LAMBDA version :
      Then(Seen(Emit([SetStatus(p, "starting") EXCEPT !.stopReason = "none",
                    !.restartTimeout = FALSE, !.version = version,
                    !.startCounter = @ + 1],
                "starting", reason, version), "starting"), LAMBDA p1 :
        [p1 EXCEPT !.proc = version, !.alive = @ \cup {version},
                   !.listening = @ \cup {version},
                   !.starts = @ \cup {[version |-> version, reason |-> reason,
                                       pc |-> "query"]}])))

\* startImpl up to its first await (the query of the CDP version).
startImpl(this, reason, spawnOk, R) ==
  Then(this, LAMBDA p :
    IF startCheck(p.status) # "start" THEN startRefused(p)
    ELSE
      Then(p.version + 1, LAMBDA version :
      Then(Emit([SetStatus(p, "starting") EXCEPT !.stopReason = "none",
                    !.restartTimeout = FALSE, !.version = version,
                    !.startCounter = @ + 1],
                "starting", reason, version), LAMBDA p1 :
      Then(Seen(IF R.starting = "stop"
                THEN stopImpl(React(p1), "requested", "stop", FALSE, R)
                ELSE p1, "starting"), LAMBDA p2 :
        IF p2.version # version THEN p2
        ELSE IF ~spawnOk THEN onFaulted(p2, version, R)
        ELSE [p2 EXCEPT !.proc = version, !.alive = @ \cup {version},
                        !.listening = @ \cup {version},
                        !.starts = @ \cup {[version |-> version, reason |-> reason,
                                            pc |-> "query"]}]))))

\* onFaulted that consults the autoRestart policy whatever the fault.
onFaultedResumeOnePolicy(this, w, spawnOk, R) ==
  Then(this, LAMBDA p :
    IF p.version # w.version THEN p
    ELSE IF ~p.options.autoRestart THEN p
    ELSE IF p.options.autoRestartDelayMillis > 0 THEN [p EXCEPT !.restartTimeout = TRUE]
    ELSE startImpl(p, "auto_restart", spawnOk, R))

\* onFaulted that does not compare the version after its await of stopImpl.
onFaultedResumeUnchecked(this, w, spawnOk, R) ==
  Then(this, LAMBDA p :
    LET shouldRestart == IF w.wasStarting THEN p.options.retryStartup
                         ELSE p.options.autoRestart
        timeoutMillis == IF w.wasStarting THEN p.options.retryStartupDelayMillis
                         ELSE p.options.autoRestartDelayMillis
    IN IF ~shouldRestart THEN p
       ELSE IF timeoutMillis > 0 THEN [p EXCEPT !.restartTimeout = TRUE]
       ELSE startImpl(p, "auto_restart", spawnOk, R))

\* onFaulted after its await of stopImpl.
onFaultedResume(this, w, spawnOk, R) ==
  Then(this, LAMBDA p :
    IF p.version # w.version THEN p
    ELSE
      LET shouldRestart == IF w.wasStarting THEN p.options.retryStartup
                           ELSE p.options.autoRestart
          timeoutMillis == IF w.wasStarting THEN p.options.retryStartupDelayMillis
                           ELSE p.options.autoRestartDelayMillis
      IN IF ~shouldRestart THEN p
         ELSE IF timeoutMillis > 0 THEN [p EXCEPT !.restartTimeout = TRUE]
         ELSE startImpl(p, "auto_restart", spawnOk, R))

\* stopImpl after its await of the guard's promise: emit `stop` if this
\* caller ran the body, then return to the caller; onFaulted, which awaits
\* stopImpl, goes on in a microtask of its own ("faulted").  "stop()" marks
\* the return to stop(), with the status that its caller finds.
stopImplResume(this, w, spawnOk, R) ==
  Then(IF w.first THEN Emit(this, "stop", w.reason, w.promise) ELSE this, LAMBDA p1 :
  Then(IF ~w.first THEN p1
       ELSE Seen(IF R.stop = "start"
                 THEN startImpl(React(p1), "requested", spawnOk, R)
                 ELSE IF R.stop = "stop"
                 THEN stopImpl(React(p1), "requested", "stop", FALSE, R)
                 ELSE p1, "stop"), LAMBDA p2 :
    IF w.kind = "fault" THEN [p2 EXCEPT !.mq = Append(@, [w EXCEPT !.t = "faulted"])]
    ELSE IF w.kind = "stop" THEN Emit(p2, "stop()", p2.status, 0)
    ELSE p2))

\* A cancel token that never reports cancellation.
isCanceledNever(p, a) == FALSE

\* cancelToken.isCanceled() of the start attempt a: the process has moved on
\* to another version.
isCanceled(p, a) == p.version # a.version

\* `return` of a start attempt that finds itself canceled.
Abort(p, a) == [p EXCEPT !.aborted = a.version]

\* startImpl after the query of the CDP version.
startImplQueried(this, a, ok, R) ==
  Then(this, LAMBDA p :
    Then([p EXCEPT !.starts = @ \ {a}], LAMBDA p1 :
      IF isCanceled(p, a) THEN Abort(p1, a)
      ELSE IF ~ok THEN onFaulted(p1, a.version, R)
      ELSE [p1 EXCEPT !.starts = @ \cup {[a EXCEPT !.pc = "client"]}]))

\* startImpl after createCdpClient.
startImplConnected(this, a, ok, R) ==
  Then(this, LAMBDA p :
    Then([p EXCEPT !.starts = @ \ {a},
                   !.connected = IF ok THEN @ \cup {a.version} ELSE @], LAMBDA p1 :
      IF isCanceled(p, a) THEN Abort(p1, a)
      ELSE IF ~ok THEN onFaulted(p1, a.version, R)
      ELSE Then(Emit(SetStatus([p1 EXCEPT !.client = a.version], "running"),
                     "start", a.reason, a.version), LAMBDA p2 :
             Seen(IF R.start = "stop"
                  THEN stopImpl(React(p2), "requested", "stop", FALSE, R)
                  ELSE p2, "start"))))

\* The 'close' listener of the spawned OS process (process.once('close')).
onProcessClose(this, k, R) ==
  Then(this, LAMBDA p :
    Then([p EXCEPT !.alive = @ \ {k}, !.listening = @ \ {k}], LAMBDA p1 :
      IF k \in p.listening /\ p.version = k THEN onFaulted(p1, k, R) ELSE p1))

\* The 'disconnect' listener of the installed CDP client.
onClientDisconnect(this, k, R) ==
  Then(this, LAMBDA p :
    Then([p EXCEPT !.connected = @ \ {k}], LAMBDA p1 :
      IF p.client = k /\ p.version = k THEN onFaulted(p1, k, R) ELSE p1))

\* The stop body after `await client.close()`.
stopBodyClientClosed(this, b) ==
  Then([this EXCEPT !.connected = @ \ {b.client}], LAMBDA p1 :
    IF b.proc # 0 THEN StopBodyKill(p1, b)
    ELSE StopBodyEnd([p1 EXCEPT !.bodies = @ \ {b}], b.promise, b.version))

\* The stop body after `await this.killProcess(process)`.
stopBodyKilled(this, b) ==
  StopBodyEnd([this EXCEPT !.bodies = @ \ {b}, !.alive = @ \ {b.proc}],
              b.promise, b.version)

\* ---------------------------------------------------------------------- \*
\* A BrowserProcess driven by embedding code                               *
\* ---------------------------------------------------------------------- \*

\* bp: the BrowserProcess; log: the events it has emitted so far (kept only
\* by the specification of the unattended process, AutoSpec); sv: the
\* BrowserSupervisor with its two instances (SupSpec); ext: the
\* ExternalBrowserProvider (ExtSpec); tab: a TabRenderer and the page it
\* renders (TabSpec), or a RequestsCompletionTrigger (RequestsSpec).
VARIABLES bp, log, sv, ext, tab

vars == <<bp, log, sv, ext, tab>>

\* The step ends in q.
Step(result) ==
  \E q \in {result} :
  /\ q.version <= MaxVersion
  /\ Len(q.waiters) + Len(q.mq) <= MaxPending
  /\ bp' = q
  /\ UNCHANGED <<log, sv, ext, tab>>

Init ==
  /\ bp \in {NewBrowserProcess(o) : o \in BrowserProcessOptions}
  /\ log = <<>>
  /\ sv = <<>>
  /\ ext = <<>>
  /\ tab = <<>>

\* browserProcess.start()
Start ==
  /\ \E R \in ReactionsTo({"starting", "stopping", "fault"}), spawnOk \in BOOLEAN :
       Step(startImpl(Fresh(bp), "requested", spawnOk, R))

\* browserProcess.stop()
Stop ==
  /\ \E R \in ReactionsTo({"stopping"}) :
       Step(stopImpl(Fresh(bp), "requested", "stop", FALSE, R))

\* The next microtask.
RunMicrotask ==
  /\ bp.mq # <<>>
  /\ LET m == Head(bp.mq)
         p == [Fresh(bp) EXCEPT !.mq = Tail(@)]
     IN IF m.t = "reset" THEN Step(GuardReset(p, m.promise, m.version))
        ELSE IF m.t = "killed"
        THEN \E b \in p.bodies : b.promise = m.promise /\ Step(stopBodyKilled(p, b))
        ELSE IF m.t = "faulted"
        THEN \E R \in ReactionsTo({"starting", "stopping", "fault"}),
                spawnOk \in BOOLEAN :
               Step(onFaultedResume(p, m, spawnOk, R))
        ELSE \E R \in ReactionsTo(IF m.first
                                   THEN {"stop", "starting", "stopping", "fault"}
                                   ELSE {}),
                spawnOk \in BOOLEAN :
               Step(stopImplResume(p, m, spawnOk, R))

\* The query of the CDP version completes.
CdpVersionQueried ==
  /\ bp.mq = <<>>
  /\ \E a \in bp.starts, ok \in BOOLEAN, R \in ReactionsTo({"fault", "stopping"}) :
       /\ a.pc = "query"
       /\ Step(startImplQueried(Fresh(bp), a, ok, R))

\* createCdpClient completes.
CdpClientCreated ==
  /\ bp.mq = <<>>
  /\ \E a \in bp.starts, ok \in BOOLEAN, R \in ReactionsTo({"start", "fault", "stopping"}) :
       /\ a.pc = "client"
       /\ Step(startImplConnected(Fresh(bp), a, ok, R))

\* A browser OS process exits on its own (the exit of a process that a stop
\* body is killing is ProcessKilled).
ProcessExit ==
  /\ bp.mq = <<>>
  /\ \E k \in bp.alive \ {b.proc : b \in {c \in bp.bodies : c.pc = "kill"}},
        R \in ReactionsTo({"fault", "stopping"}) :
       /\ Step(onProcessClose(Fresh(bp), k, R))

\* The connection of a CDP client breaks.
ClientDisconnect ==
  /\ bp.mq = <<>>
  /\ \E k \in {bp.client} \ {0}, R \in ReactionsTo({"fault", "stopping"}) :
       /\ Step(onClientDisconnect(Fresh(bp), k, R))

\* client.close() of a stop body completes.
ClientClosed ==
  /\ bp.mq = <<>>
  /\ \E b \in bp.bodies : b.pc = "close" /\ Step(stopBodyClientClosed(Fresh(bp), b))

\* killProcess of a stop body completes.
ProcessKilled ==
  /\ bp.mq = <<>>
  /\ \E b \in bp.bodies :
       b.pc = "kill" /\ b.proc \in bp.alive /\ Step(stopBodyKilled(Fresh(bp), b))

\* The restart delay elapses: onFaulted goes on to start again.
RestartTimeout ==
  /\ bp.mq = <<>>
  /\ bp.restartTimeout
  /\ \E R \in ReactionsTo({"starting", "stopping", "fault"}), spawnOk \in BOOLEAN :
       Step(startImpl([Fresh(bp) EXCEPT !.restartTimeout = FALSE],
                      "auto_restart", spawnOk, R))

Next ==
  \/ Start
  \/ Stop
  \/ RunMicrotask
  \/ CdpVersionQueried
  \/ CdpClientCreated
  \/ ProcessExit
  \/ ClientDisconnect
  \/ ClientClosed
  \/ ProcessKilled
  \/ RestartTimeout

Spec == Init /\ [][Next]_vars

\* ---------------------------------------------------------------------- \*
\* A BrowserProcess whose browser never fails                              *
\* ---------------------------------------------------------------------- \*

\* No listener of the embedding code calls start() or stop().
Quiet == CHOOSE R \in Reactions : \A e \in DOMAIN R : R[e] = "none"

CallStep(result) ==
  \E q \in {result} :
  /\ q.version <= MaxCalls
  /\ Len(q.waiters) + Len(q.mq) <= MaxPending
  /\ bp' = q
  /\ UNCHANGED <<log, sv, ext, tab>>

\* browserProcess.start()
CallStart == CallStep(startImpl(Fresh(bp), "requested", TRUE, Quiet))

\* browserProcess.stop()
CallStop == CallStep(stopImpl(Fresh(bp), "requested", "stop", FALSE, Quiet))

CallRunMicrotask ==
  /\ bp.mq # <<>>
  /\ LET m == Head(bp.mq)
         p == [Fresh(bp) EXCEPT !.mq = Tail(@)]
     IN IF m.t = "reset" THEN CallStep(GuardReset(p, m.promise, m.version))
        ELSE IF m.t = "killed"
        THEN \E b \in p.bodies : b.promise = m.promise /\ CallStep(stopBodyKilled(p, b))
        ELSE IF m.t = "faulted" THEN CallStep(onFaultedResume(p, m, TRUE, Quiet))
        ELSE CallStep(stopImplResume(p, m, TRUE, Quiet))

CallCdpVersionQueried ==
  /\ bp.mq = <<>>
  /\ \E a \in bp.starts :
       a.pc = "query" /\ CallStep(startImplQueried(Fresh(bp), a, TRUE, Quiet))

CallCdpClientCreated ==
  /\ bp.mq = <<>>
  /\ \E a \in bp.starts :
       a.pc = "client" /\ CallStep(startImplConnected(Fresh(bp), a, TRUE, Quiet))

CallClientClosed ==
  /\ bp.mq = <<>>
  /\ \E b \in bp.bodies : b.pc = "close" /\ CallStep(stopBodyClientClosed(Fresh(bp), b))

CallProcessKilled ==
  /\ bp.mq = <<>>
  /\ \E b \in bp.bodies :
       b.pc = "kill" /\ b.proc \in bp.alive /\ CallStep(stopBodyKilled(Fresh(bp), b))

CallNext ==
  \/ CallStart
  \/ CallStop
  \/ CallRunMicrotask
  \/ CallCdpVersionQueried
  \/ CallCdpClientCreated
  \/ CallClientClosed
  \/ CallProcessKilled

CallSpec == Init /\ [][CallNext]_vars

\* ---------------------------------------------------------------------- \*
\* An unattended BrowserProcess: started once, then left alone              *
\* ---------------------------------------------------------------------- \*

\* A failure is injected only while the stop and the restart it leads to fit
\* below MaxAutoVersion; a failure to spawn needs room for the start as well.
MayFail == bp.version + 2 <= MaxAutoVersion

MayFailSpawn == bp.version + 3 <= MaxAutoVersion

AutoStep(result) ==
  \E q \in {result} :
  /\ q.version <= MaxAutoVersion
  /\ bp' = q
  /\ log' = log \o [i \in 1..Len(q.out) |-> [name |-> q.out[i].name,
                                               reason |-> q.out[i].reason]]
  /\ UNCHANGED <<sv, ext, tab>>

\* The one call of browserProcess.start().
AutoStart ==
  /\ bp.status = "initial"
  /\ \E spawnOk \in {TRUE} \cup {~MayFailSpawn} :
       AutoStep(startImpl(Fresh(bp), "requested", spawnOk, Quiet))

AutoRunMicrotask ==
  /\ bp.mq # <<>>
  /\ LET m == Head(bp.mq)
         p == [Fresh(bp) EXCEPT !.mq = Tail(@)]
     IN IF m.t = "reset" THEN AutoStep(GuardReset(p, m.promise, m.version))
        ELSE IF m.t = "killed"
        THEN \E b \in p.bodies : b.promise = m.promise /\ AutoStep(stopBodyKilled(p, b))
        ELSE IF m.t = "faulted"
        THEN \E spawnOk \in {TRUE} \cup {~MayFailSpawn} :
               AutoStep(onFaultedResume(p, m, spawnOk, Quiet))
        ELSE AutoStep(stopImplResume(p, m, TRUE, Quiet))

AutoCdpVersionQueried ==
  /\ bp.mq = <<>>
  /\ \E a \in bp.starts, ok \in {TRUE} \cup {~MayFail} :
       /\ a.pc = "query"
       /\ AutoStep(startImplQueried(Fresh(bp), a, ok, Quiet))

AutoCdpClientCreated ==
  /\ bp.mq = <<>>
  /\ \E a \in bp.starts, ok \in {TRUE} \cup {~MayFail} :
       /\ a.pc = "client"
       /\ AutoStep(startImplConnected(Fresh(bp), a, ok, Quiet))

AutoProcessExit ==
  /\ bp.mq = <<>>
  /\ MayFail
  /\ \E k \in bp.listening : AutoStep(onProcessClose(Fresh(bp), k, Quiet))

AutoClientDisconnect ==
  /\ bp.mq = <<>>
  /\ MayFail
  /\ \E k \in {bp.client} \ {0} : AutoStep(onClientDisconnect(Fresh(bp), k, Quiet))

AutoClientClosed ==
  /\ bp.mq = <<>>
  /\ \E b \in bp.bodies : b.pc = "close" /\ AutoStep(stopBodyClientClosed(Fresh(bp), b))

AutoProcessKilled ==
  /\ bp.mq = <<>>
  /\ \E b \in bp.bodies :
       b.pc = "kill" /\ b.proc \in bp.alive /\ AutoStep(stopBodyKilled(Fresh(bp), b))

AutoRestartTimeout ==
  /\ bp.mq = <<>>
  /\ bp.restartTimeout
  /\ \E spawnOk \in {TRUE} \cup {~MayFailSpawn} :
       AutoStep(startImpl([Fresh(bp) EXCEPT !.restartTimeout = FALSE],
                          "auto_restart", spawnOk, Quiet))

AutoNext ==
  \/ AutoStart
  \/ AutoRunMicrotask
  \/ AutoCdpVersionQueried
  \/ AutoCdpClientCreated
  \/ AutoProcessExit
  \/ AutoClientDisconnect
  \/ AutoClientClosed
  \/ AutoProcessKilled
  \/ AutoRestartTimeout

\* The event loop runs every task that is ready, and timers and I/O complete.
AutoFairness ==
  /\ WF_vars(AutoRunMicrotask)
  /\ WF_vars(AutoCdpVersionQueried)
  /\ WF_vars(AutoCdpClientCreated)
  /\ WF_vars(AutoClientClosed)
  /\ WF_vars(AutoProcessKilled)
  /\ WF_vars(AutoRestartTimeout)

AutoSpec == Init /\ [][AutoNext]_vars /\ AutoFairness

\* ---------------------------------------------------------------------- \*
\* A BrowserProcess with a `fault` listener                                *
\* ---------------------------------------------------------------------- \*

\* The process of AutoSpec in an embedding that also calls stop() and
\* start() between any two tasks and whose `fault` listener may call stop().
\* The embedding code makes its calls while the log is shorter than
\* MaxListenLog.

MaxListenLog == 4      \* events emitted before the last call of stop() or start()

\* The `fault` listener calls browserProcess.stop().
StopInFaultHandler == [Quiet EXCEPT !.fault = "stop"]

\* browserProcess.stop()
ListenStop ==
  /\ Len(bp.waiters) + Len(bp.mq) < MaxPending
  /\ Len(log) < MaxListenLog
  /\ AutoStep(stopImpl(Fresh(bp), "requested", "stop", FALSE, Quiet))

\* browserProcess.start() on a Stopped process.
ListenStart ==
  /\ bp.status = "stopped"
  /\ Len(log) < MaxListenLog
  /\ \E spawnOk \in {TRUE} \cup {~MayFailSpawn} :
       AutoStep(startImpl(Fresh(bp), "requested", spawnOk, StopInFaultHandler))

\* The query of the CDP version fails; the listener of `fault` calls stop().
ListenCdpVersionQueried ==
  /\ bp.mq = <<>>
  /\ MayFail
  /\ \E a \in bp.starts :
       /\ a.pc = "query"
       /\ AutoStep(startImplQueried(Fresh(bp), a, FALSE, StopInFaultHandler))

\* The browser exits; the listener of `fault` calls stop().
ListenProcessExit ==
  /\ bp.mq = <<>>
  /\ MayFail
  /\ \E k \in bp.listening : AutoStep(onProcessClose(Fresh(bp), k, StopInFaultHandler))

\* The connection breaks; the listener of `fault` calls stop().
ListenClientDisconnect ==
  /\ bp.mq = <<>>
  /\ MayFail
  /\ \E k \in {bp.client} \ {0} :
       AutoStep(onClientDisconnect(Fresh(bp), k, StopInFaultHandler))

ListenNext ==
  \/ AutoNext
  \/ ListenStop
  \/ ListenStart
  \/ ListenCdpVersionQueried
  \/ ListenProcessExit
  \/ ListenClientDisconnect

ListenSpec == Init /\ [][ListenNext]_vars /\ AutoFairness

\* The process of AutoSpec in an embedding that calls stop(), and start()
\* only once: whatever starts after that is an automatic restart.
StopNext == AutoNext \/ ListenStop

StopSpec == Init /\ [][StopNext]_vars

\* ---------------------------------------------------------------------- \*
\* BrowserInstance, BrowserHandle and BrowserSupervisor                    *
\* ---------------------------------------------------------------------- \*

MaxSupVersion == 3     \* starts and stops of each process of the supervisor
MaxHandles == 1        \* BrowserHandles open at a time
MaxRecycleCalls == 2   \* recycleMain calls awaiting the end of a recycle run
MaxFaults == 1         \* failures of the browsers (exit, disconnect, no connection)

BrowserProviderStatus == {"initial", "starting", "running", "closing", "closed"}

BrowserInstanceRole == {"main", "standby"}

BrowserRecycleResult == {"recycled", "canceled", "standby_unavailable"}

BrowserSupervisorOptions ==
  {[autoRecycle |-> FALSE, autoRestartProcesses |-> TRUE],
   [autoRecycle |-> TRUE, autoRestartProcesses |-> FALSE]}

\* Stopwatch: whether _start and _end are set (the elapsed time is left out).
NewStopwatch == [start |-> FALSE, end |-> FALSE]

StopwatchRunning(w) == w.start /\ ~w.end

StopwatchStart(w) == IF StopwatchRunning(w) THEN w ELSE [start |-> TRUE, end |-> FALSE]

StopwatchStop(w) == [w EXCEPT !.end = TRUE]

StopwatchPause(w) == IF StopwatchRunning(w) THEN [w EXCEPT !.start = FALSE] ELSE w

\* State of a BrowserInstance after construction; the supervisor creates its
\* process with autoRestart set and every other option left at its default.
NewBrowserInstance(o) ==
  [process |-> NewBrowserProcess([autoRestart |-> o.autoRestartProcesses,
                                  autoRestartDelayMillis |-> 0,
                                  retryStartup |-> TRUE,
                                  retryStartupDelayMillis |-> 0]),
   role |-> "none", handles |-> {}, stopwatch |-> NewStopwatch]

markAsMain(instance) == [instance EXCEPT !.role = "main"]

markAsStandby(instance) == [instance EXCEPT !.role = "standby"]

\* State of a BrowserSupervisor after construction.  inst holds the two
\* instances by port, instances is the field _instances (main first).
\* Besides the fields of the class: whether the listeners of start() are
\* attached, the suspended executions of start, close and recycleMain
\* (startPending, closePending, recycles, recycleWaiters), the microtask
\* queue of the event loop (gq), the events of the current synchronous run
\* (out), and the number of failures the browsers have had (faults).
NewBrowserSupervisor(o) ==
  [options |-> o, status |-> "initial", instances |-> <<1, 2>>,
   inst |-> <<markAsMain(NewBrowserInstance(o)), markAsStandby(NewBrowserInstance(o))>>,
   attached |-> FALSE, recycleTimeout |-> FALSE,
   recycleGuard |-> 0, recycles |-> {}, recycleWaiters |-> <<>>,
   closeGuard |-> FALSE, closePending |-> {}, startPending |-> {},
   gq |-> <<>>, out |-> <<>>, faults |-> 0]

\* The status of the two processes.
St(s) == [j \in 1..2 |-> s.inst[j].process.status]

\* A new synchronous run begins: nothing emitted yet.
SupFresh(s) ==
  [s EXCEPT !.out = <<>>,
            !.inst = [j \in 1..2 |-> [s.inst[j] EXCEPT !.process = Fresh(@)]]]

\* An event of an instance or of the supervisor, or a return value handed to
\* the embedding code, with what a listener or the caller can observe at that
\* point: i is the instance concerned, k the client of a handle or the
\* promise of a recycle run, st the status of the two processes.
SupEmit(this, name, arg, i, k, st) ==
  Then(this, LAMBDA s :
    [s EXCEPT !.out = Append(@, [name |-> name, arg |-> arg, inst |-> i, ref |-> k,
                                 status |-> s.status, instances |-> s.instances,
                                 roles |-> <<s.inst[1].role, s.inst[2].role>>,
                                 st |-> st])])

\* A microtask of the supervisor.
SupTask(t, k, first, arg, caller) ==
  [inst |-> 0, task |-> Microtask(t, k, 0, Waiter(k, first, arg, caller, FALSE))]

scheduleMainRecycle(this) ==
  Then(this, LAMBDA s :
    IF s.status # "running" THEN s
    ELSE IF ~s.options.autoRecycle THEN s
    ELSE IF s.recycleGuard # 0 THEN s
    ELSE [s EXCEPT !.recycleTimeout = TRUE])

\* invalidateMainUptime of instance i, with the listener of main_online
\* that start() attaches.
invalidateMainUptime(this, i, st) ==
  Then(this, LAMBDA s :
    Then(s.inst[i].stopwatch, LAMBDA w :
    Then(IF st[i] # "running" THEN StopwatchStop(w)
         ELSE IF s.inst[i].role = "main" THEN StopwatchStart(w)
         ELSE IF s.inst[i].role = "standby" THEN StopwatchPause(w)
         ELSE w, LAMBDA w2 :
    Then([s EXCEPT !.inst[i].stopwatch = w2], LAMBDA s1 :
      IF ~StopwatchRunning(w) /\ StopwatchRunning(w2)
      THEN Then(SupEmit(s1, "main_online", "none", i, 0, st), LAMBDA s2 :
             IF s2.attached THEN scheduleMainRecycle(s2) ELSE s2)
      ELSE IF StopwatchRunning(w) /\ ~StopwatchRunning(w2)
      THEN SupEmit(s1, "main_offline", "none", i, 0, st)
      ELSE s1))))

\* promoteStandbyToMain that leaves the role of the demoted instance as it is.
promoteStandbyToMainUnmarked(this, reason, st) ==
  Then(this, LAMBDA s :
    Then(<<s.instances[2], s.instances[1]>>, LAMBDA ins :
    Then([s EXCEPT !.instances = ins,
                   !.inst[ins[1]] = markAsMain(@)], LAMBDA s1 :
    Then(invalidateMainUptime(s1, ins[1], st), LAMBDA s2 :
    Then(invalidateMainUptime(s2, ins[2], st), LAMBDA s3 :
      SupEmit(s3, "takeover", reason, 0, 0, st))))))

promoteStandbyToMain(this, reason, st) ==
  Then(this, LAMBDA s :
    Then(<<s.instances[2], s.instances[1]>>, LAMBDA ins :
    Then([s EXCEPT !.instances = ins,
                   !.inst[ins[1]] = markAsMain(@),
                   !.inst[ins[2]] = markAsStandby(@)], LAMBDA s1 :
    Then(invalidateMainUptime(s1, ins[1], st), LAMBDA s2 :
    Then(invalidateMainUptime(s2, ins[2], st), LAMBDA s3 :
      SupEmit(s3, "takeover", reason, 0, 0, st))))))

\* considerStandbyPromotion that does not look at the standby.
considerStandbyPromotionMainOnly(this, st) ==
  Then(this, LAMBDA s :
    IF st[s.instances[1]] = "running" THEN s
    ELSE promoteStandbyToMain(s, "fault", st))

considerStandbyPromotion(this, st) ==
  Then(this, LAMBDA s :
    IF st[s.instances[1]] = "running" THEN s
    ELSE IF st[s.instances[2]] # "running" THEN s
    ELSE IF /\ s.status = "starting"
            /\ st[s.instances[1]] = "starting"
            /\ s.inst[s.instances[1]].process.startCounter = 1 THEN s
    ELSE promoteStandbyToMain(s, "fault", st))

\* The listeners of the process events of instance i, in the order in which
\* they were attached: invalidateMainUptime of the instance (start, stop,
\* fault), then considerStandbyPromotion of the supervisor (start, fault;
\* attached by start()).  "handle" marks the call of the latter.
onProcessEvent(this, i, e) ==
  Then(this, LAMBDA s :
    Then([j \in 1..2 |-> IF j = i THEN e.status ELSE s.inst[j].process.status], LAMBDA st :
      IF e.name \notin {"start", "stop", "fault"} THEN s
      ELSE Then(invalidateMainUptime(s, i, st), LAMBDA s1 :
             IF e.name = "stop" \/ ~s1.attached THEN s1
             ELSE considerStandbyPromotion(SupEmit(s1, "handle", e.name, i, 0, st), st))))

RECURSIVE onProcessEvents(_, _, _)
onProcessEvents(this, i, events) ==
  IF events = <<>> THEN this
  ELSE onProcessEvents(onProcessEvent(this, i, Head(events)), i, Tail(events))

\* The process of instance i has run, which left it as `result`: its new
\* microtasks join the queue of the event loop and its new events reach the
\* listeners of instance and supervisor.
Deliver(this, i, result) ==
  Then(this, LAMBDA s :
  Then(result, LAMBDA q :
  Then([s EXCEPT !.inst[i].process = [q EXCEPT !.mq = <<>>],
                 !.gq = @ \o [n \in 1..Len(q.mq) |-> [inst |-> i, task |-> q.mq[n]]]],
       LAMBDA s1 :
    onProcessEvents(s1, i, SubSeq(q.out, Len(s.inst[i].process.out) + 1, Len(q.out))))))

\* instance.start() and instance.stop() up to their await.
instanceStart(this, i, spawnOk) ==
  Then(this, LAMBDA s :
    Deliver(s, i, startImpl(s.inst[i].process, "requested", spawnOk, Quiet)))

instanceStop(this, i, kind) ==
  Then(this, LAMBDA s :
    Deliver(s, i, stopImpl(s.inst[i].process, "requested", kind, FALSE, Quiet)))

\* The start attempt of version ver of process p has not returned yet.
StartPending(p, ver) == \E a \in p.starts : a.version = ver

\* The listener of `idle` of a recycle run that drains instance i: the race
\* with the drain timer is decided.
onIdle(this, i, elapsed) ==
  Then(this, LAMBDA s :
    Then({b \in s.recycles : b.pc = "drain" /\ b.standby = i}, LAMBDA woken :
      IF woken = {} THEN s
      ELSE Then(CHOOSE b \in woken : TRUE, LAMBDA b :
        [s EXCEPT !.recycles = (@ \ {b}) \cup {[b EXCEPT !.pc = "drained",
                                                         !.elapsed = elapsed]},
                  !.gq = Append(@, SupTask("recycle_drained", b.promise, FALSE,
                                           "none", "none"))])))

HandlesInUse(s) == {h.id : h \in s.inst[1].handles \cup s.inst[2].handles}

\* new BrowserHandle(client)
NewHandle(s, i, k) ==
  [id |-> CHOOSE n \in 1..MaxHandles :
            /\ n \notin HandlesInUse(s)
            /\ \A j \in 1..(n - 1) : j \in HandlesInUse(s),
   inst |-> i, client |-> k]

addHandle(this, h) == [this EXCEPT !.inst[h.inst].handles = @ \cup {h}]

removeHandle(this, h) ==
  Then(this, LAMBDA s :
    IF h \notin s.inst[h.inst].handles THEN s
    ELSE Then([s EXCEPT !.inst[h.inst].handles = @ \ {h}], LAMBDA s1 :
      IF s1.inst[h.inst].handles # {} THEN s1
      ELSE onIdle(SupEmit(s1, "idle", "none", h.inst, 0, St(s1)), h.inst, FALSE)))

\* The client k of instance i emits `disconnect` or `close`: its handles close.
RECURSIVE onDisconnectOrClose(_, _, _)
onDisconnectOrClose(this, i, k) ==
  Then(this, LAMBDA s :
    Then({h \in s.inst[i].handles : h.client = k}, LAMBDA closing :
      IF closing = {} THEN s
      ELSE onDisconnectOrClose(removeHandle(s, CHOOSE h \in closing : TRUE), i, k)))

\* createHandle that takes the client of the standby.
createHandleOfStandby(this) ==
  Then(this, LAMBDA s :
    IF s.status # "running" THEN SupEmit(s, "createHandle", "logic_error", 0, 0, St(s))
    ELSE Then(s.instances[2], LAMBDA instance :
      IF s.inst[instance].process.status # "running"
      THEN SupEmit(s, "createHandle", "null", 0, 0, St(s))
      ELSE Then(NewHandle(s, instance, s.inst[instance].process.client), LAMBDA handle :
        SupEmit(addHandle(s, handle), "createHandle", "handle",
                handle.inst, handle.client, St(s)))))

createHandle(this) ==
  Then(this, LAMBDA s :
    IF s.status # "running" THEN SupEmit(s, "createHandle", "logic_error", 0, 0, St(s))
    ELSE Then(s.instances[1], LAMBDA instance :
      IF s.inst[instance].process.status # "running"
      THEN SupEmit(s, "createHandle", "null", 0, 0, St(s))
      ELSE Then(NewHandle(s, instance, s.inst[instance].process.client), LAMBDA handle :
        SupEmit(addHandle(s, handle), "createHandle", "handle",
                handle.inst, handle.client, St(s)))))

\* supervisor.start() up to its await of the two instance.start().
supervisorStart(this, spawnOk1, spawnOk2) ==
  Then(this, LAMBDA s :
    IF s.status = "running" THEN s
    ELSE IF s.status # "initial" THEN s                       \* throws LogicError
    ELSE Then(instanceStart([s EXCEPT !.status = "starting"], s.instances[1], spawnOk1),
              LAMBDA s1 :
         Then(instanceStart(s1, s1.instances[2], spawnOk2), LAMBDA s2 :
           [s2 EXCEPT !.startPending = {1, 2}])))

\* supervisor.start() after its await.
supervisorStarted(this) ==
  Then(this, LAMBDA s :
    IF s.status # "starting" THEN s
    ELSE scheduleMainRecycle([s EXCEPT !.status = "running", !.attached = TRUE]))

\* supervisor.close() up to its await of the two instance.stop().
supervisorClose(this) ==
  Then(this, LAMBDA s :
    IF s.closeGuard THEN s
    ELSE IF s.status = "closed"
    THEN [s EXCEPT !.closeGuard = TRUE,
                   !.gq = Append(@, SupTask("close_reset", 0, FALSE, "none", "none"))]
    ELSE Then(instanceStop([s EXCEPT !.closeGuard = TRUE, !.status = "closing",
                                     !.recycleTimeout = FALSE, !.attached = FALSE],
                           s.instances[1], "close"), LAMBDA s1 :
         Then(instanceStop(s1, s1.instances[2], "close"), LAMBDA s2 :
           [s2 EXCEPT !.closePending = {1, 2}])))

\* supervisor.close() after its await: the body of the guarded run returns.
supervisorClosed(this) ==
  [this EXCEPT !.status = "closed",
               !.gq = Append(@, SupTask("close_reset", 0, FALSE, "none", "none"))]

RecyclePromisesInUse(s) ==
  {s.recycleGuard} \cup {b.promise : b \in s.recycles}
    \cup {s.recycleWaiters[n].promise : n \in DOMAIN s.recycleWaiters}
    \cup {s.gq[n].task.promise : n \in {m \in DOMAIN s.gq : s.gq[m].inst = 0}}

NewRecyclePromise(s) ==
  CHOOSE k \in 1..MaxPromise :
    /\ k \notin RecyclePromisesInUse(s)
    /\ \A j \in 1..(k - 1) : j \in RecyclePromisesInUse(s)

\* The body of the recycle run k returns (or throws): its promise settles,
\* which queues the callback of ReentrancyGuard.run.
recycleEnd(this, k, result) ==
  [this EXCEPT !.gq = Append(@, SupTask("recycle_reset", k, FALSE, result, "none"))]

\* The recycle run b (suspended, or about to suspend) is kept.
Suspend(this, b) == [this EXCEPT !.recycles = @ \cup {b}]

\* recycleMainDrained that does not look at the role of the demoted instance.
recycleMainDrainedRoleUnchecked(this, b) ==
  Then(this, LAMBDA s :
    IF s.status # "running" THEN recycleEnd(s, b.promise, "canceled")
    ELSE IF s.inst[b.standby].process.status # "running"
    THEN recycleEnd(s, b.promise, "canceled")
    ELSE instanceStop(Suspend(s, [b EXCEPT !.pc = "stop"]), b.standby, "recycle"))

\* The body of recycleMain after draining, up to `await standby.stop()`.
recycleMainDrained(this, b) ==
  Then(this, LAMBDA s :
    IF s.status # "running" THEN recycleEnd(s, b.promise, "canceled")
    ELSE IF s.inst[b.standby].role # "standby"
    THEN recycleEnd(s, b.promise, "standby_unavailable")
    ELSE IF s.inst[b.standby].process.status # "running"
    THEN recycleEnd(s, b.promise, "canceled")
    ELSE instanceStop(Suspend(s, [b EXCEPT !.pc = "stop"]), b.standby, "recycle"))

\* The body of recycleMain after `await standby.stop()`, up to
\* `await standby.start()`.
recycleMainStopped(this, b, spawnOk) ==
  Then(this, LAMBDA s :
    IF s.status # "running" THEN recycleEnd(s, b.promise, "canceled")
    ELSE IF s.inst[b.standby].process.status # "stopped"
    THEN recycleEnd(s, b.promise, "canceled")
    ELSE Then(instanceStart(s, b.standby, spawnOk), LAMBDA s1 :
           Suspend(s1, [b EXCEPT !.pc = "start",
                                 !.version = s1.inst[b.standby].process.version])))

\* A recycle run that does not wait for the handles of the demoted instance.
recycleMainDrainSkipped(this, b) == recycleMainDrained(this, b)

\* "Drain requests": the body of recycleMain waits for `idle` of the demoted
\* instance or for the drain timer if the instance has handles.
recycleMainDrain(this, b) ==
  IF this.inst[b.standby].handles # {}
  THEN Suspend(this, [b EXCEPT !.pc = "drain"])
  ELSE recycleMainDrained(this, b)

\* The body of the recycle run k up to its first await.
recycleMainBody(this, k) ==
  Then(this, LAMBDA s :
    IF s.status # "running" THEN recycleEnd(s, k, "logic_error")
    ELSE IF s.inst[s.instances[2]].process.status # "running"
    THEN recycleEnd(s, k, "standby_unavailable")
    ELSE Then(promoteStandbyToMain(s, "recycle", St(s)), LAMBDA s1 :
      IF s1.status # "running" THEN recycleEnd(s1, k, "canceled")
      ELSE recycleMainDrain(s1, [promise |-> k, pc |-> "drain", standby |-> s1.instances[2],
                                 version |-> 0, elapsed |-> FALSE])))

\* recycleMain up to `await promise`; caller is the embedding code ("call")
\* or the callback of the recycle timer ("timer").
recycleMain(this, caller) ==
  Then(this, LAMBDA s :
    IF s.recycleGuard # 0
    THEN [s EXCEPT !.recycleWaiters = Append(@, Waiter(s.recycleGuard, FALSE, "none",
                                                       caller, FALSE))]
    ELSE Then(NewRecyclePromise(s), LAMBDA k :
      recycleMainBody([s EXCEPT !.recycleGuard = k,
                                !.recycleWaiters = Append(@, Waiter(k, TRUE, "none",
                                                                    caller, FALSE))], k)))

\* The callback of ReentrancyGuard.run for the recycle run k: reset the
\* guard and settle the promise, which queues the continuations of the
\* recycleMain calls awaiting it.
recycleSettled(this, k, result) ==
  Then(this, LAMBDA s :
    Then(SelectSeq(s.recycleWaiters, LAMBDA w : w.promise = k), LAMBDA woken :
      [s EXCEPT !.recycleGuard = 0,
                !.recycleWaiters = SelectSeq(@, LAMBDA w : w.promise # k),
                !.gq = @ \o [n \in 1..Len(woken) |->
                               SupTask("recycle_resume", k, woken[n].first, result,
                                       woken[n].kind)]]))

\* recycleMain after `await promise` (m.reason is the result or the error,
\* m.kind the caller), and then the callback of the recycle timer after its
\* await of recycleMain.  "recycleMain" marks the return (or the throw) to
\* the caller that started the run, "recycleMain_joined" to one that joined,
\* "recycleTimeout" the result that the callback of the timer is given.
recycleMainReturn(this, m) ==
  Then(this, LAMBDA s :
    Then(IF m.first THEN "recycleMain" ELSE "recycleMain_joined", LAMBDA return :
      IF m.reason = "logic_error" THEN SupEmit(s, return, m.reason, 0, m.promise, St(s))
      ELSE Then(IF m.first THEN SupEmit(s, "recycle", m.reason, 0, m.promise, St(s)) ELSE s,
                LAMBDA s1 : SupEmit(s1, return, m.reason, 0, m.promise, St(s1)))))

\* A callback of the recycle timer that schedules the next run after
\* Recycled only.
recycleMainResumeRecycledOnly(this, m) ==
  Then(recycleMainReturn(this, m), LAMBDA s :
    IF m.kind # "timer" \/ m.reason = "logic_error" THEN s
    ELSE Then(SupEmit(s, "recycleTimeout", m.reason, 0, m.promise, St(s)), LAMBDA s1 :
      IF s1.status # "running" THEN s1
      ELSE IF m.reason = "recycled" THEN scheduleMainRecycle(s1)
      ELSE s1))

recycleMainResume(this, m) ==
  Then(recycleMainReturn(this, m), LAMBDA s :
    IF m.kind # "timer" \/ m.reason = "logic_error" THEN s
    ELSE Then(SupEmit(s, "recycleTimeout", m.reason, 0, m.promise, St(s)), LAMBDA s1 :
      IF s1.status # "running" THEN s1
      ELSE IF m.reason = "standby_unavailable" THEN scheduleMainRecycle(s1)
      ELSE scheduleMainRecycle(s1)))

\* A stopImpl called by the supervisor (m.kind tells by whom) has returned
\* for instance i: instance.stop() returns, and close() or the recycle run
\* goes on once what it awaits has settled.
instanceStopped(this, i, m) ==
  Then(this, LAMBDA s :
    IF m.kind = "close"
    THEN IF s.closePending = {i}
         THEN [s EXCEPT !.closePending = {},
                        !.gq = Append(@, SupTask("closed", 0, FALSE, "none", "none"))]
         ELSE [s EXCEPT !.closePending = @ \ {i}]
    ELSE IF m.kind = "recycle"
    THEN Then({b \in s.recycles : b.pc = "stop" /\ b.standby = i}, LAMBDA stopped :
           IF stopped = {} THEN s
           ELSE Then(CHOOSE b \in stopped : TRUE, LAMBDA b :
             [s EXCEPT !.recycles = (@ \ {b}) \cup {[b EXCEPT !.pc = "stopped"]},
                       !.gq = Append(@, SupTask("recycle_stopped", b.promise, FALSE,
                                                "none", "none"))]))
    ELSE s)

\* What the supervisor awaits has settled: the first start attempts of both
\* processes have returned (start), or the start attempt of the recycled
\* instance has (recycleMain, which returns Recycled).
Settle(this) ==
  Then(this, LAMBDA s :
    Then(IF /\ s.startPending # {}
            /\ \A i \in s.startPending : ~StartPending(s.inst[i].process, 1)
         THEN [s EXCEPT !.startPending = {},
                        !.gq = Append(@, SupTask("started", 0, FALSE, "none", "none"))]
         ELSE s, LAMBDA s1 :
      Then({b \in s1.recycles : /\ b.pc = "start"
                                /\ ~StartPending(s1.inst[b.standby].process, b.version)},
           LAMBDA started :
        IF started = {} THEN s1
        ELSE Then(CHOOSE b \in started : TRUE, LAMBDA b :
               recycleEnd([s1 EXCEPT !.recycles = @ \ {b}], b.promise, "recycled")))))

\* ---------------------------------------------------------------------- \*
\* A BrowserSupervisor driven by embedding code                            *
\* ---------------------------------------------------------------------- \*

\* The embedding code calls the supervisor and its handles from tasks of its
\* own (request handlers, timers), that is between the tasks of the event
\* loop and not in the middle of a chain of microtasks; its listeners do not
\* call back.  The browser executable exists and answers the version query:
\* a start attempt fails when the CDP client cannot connect, and a started
\* browser fails by exiting or by dropping the connection.

\* The step ends in the supervisor `result`.
SupStep(result) ==
  \E s \in {Settle(result)} :
  /\ \A i \in 1..2 : s.inst[i].process.version <= MaxSupVersion
  /\ Len(s.recycleWaiters) <= MaxRecycleCalls
  /\ s.faults <= MaxFaults
  /\ sv' = s
  /\ UNCHANGED <<bp, log, ext, tab>>

\* A browser fails.
Fault(s) == [s EXCEPT !.faults = @ + 1]

SupInit ==
  /\ bp = NewBrowserProcess(CHOOSE o \in BrowserProcessOptions : TRUE)
  /\ log = <<>>
  /\ sv \in {NewBrowserSupervisor(o) : o \in BrowserSupervisorOptions}
  /\ ext = <<>>
  /\ tab = <<>>

\* supervisor.start()
SupStart == sv.gq = <<>> /\ SupStep(supervisorStart(SupFresh(sv), TRUE, TRUE))

\* supervisor.close()
SupClose == sv.gq = <<>> /\ SupStep(supervisorClose(SupFresh(sv)))

\* supervisor.createHandle()
SupCreateHandle ==
  /\ sv.gq = <<>>
  /\ Cardinality(HandlesInUse(sv)) < MaxHandles
  /\ SupStep(createHandle(SupFresh(sv)))

\* handle.close()
SupCloseHandle ==
  /\ sv.gq = <<>>
  /\ \E i \in 1..2 : \E h \in sv.inst[i].handles : SupStep(removeHandle(SupFresh(sv), h))

\* supervisor.recycleMain()
SupRecycleMain == sv.gq = <<>> /\ SupStep(recycleMain(SupFresh(sv), "call"))

\* The next microtask: of a process, or of the supervisor.
SupRunMicrotask ==
  /\ sv.gq # <<>>
  /\ LET i == Head(sv.gq).inst
         m == Head(sv.gq).task
         s == [SupFresh(sv) EXCEPT !.gq = Tail(@)]
     IN IF i # 0
        THEN LET p == s.inst[i].process
             IN IF m.t = "reset" THEN SupStep(Deliver(s, i, GuardReset(p, m.promise, m.version)))
                ELSE IF m.t = "killed"
                THEN \E b \in p.bodies :
                       b.promise = m.promise /\ SupStep(Deliver(s, i, stopBodyKilled(p, b)))
                ELSE IF m.t = "faulted"
                THEN SupStep(Deliver(s, i, onFaultedResume(p, m, TRUE, Quiet)))
                ELSE SupStep(instanceStopped(
                               Deliver(s, i, stopImplResume(p, m, TRUE, Quiet)), i, m))
        ELSE IF m.t = "started" THEN SupStep(supervisorStarted(s))
        ELSE IF m.t = "closed" THEN SupStep(supervisorClosed(s))
        ELSE IF m.t = "close_reset" THEN SupStep([s EXCEPT !.closeGuard = FALSE])
        ELSE IF m.t = "recycle_drained"
        THEN \E b \in s.recycles :
               /\ b.promise = m.promise /\ b.pc = "drained"
               /\ SupStep(recycleMainDrained([s EXCEPT !.recycles = @ \ {b}], b))
        ELSE IF m.t = "recycle_stopped"
        THEN \E b \in s.recycles :
               /\ b.promise = m.promise /\ b.pc = "stopped"
               /\ SupStep(recycleMainStopped([s EXCEPT !.recycles = @ \ {b}], b, TRUE))
        ELSE IF m.t = "recycle_reset" THEN SupStep(recycleSettled(s, m.promise, m.reason))
        ELSE SupStep(recycleMainResume(s, m))

\* The query of the CDP version of a process completes.
SupCdpVersionQueried ==
  /\ sv.gq = <<>>
  /\ \E i \in 1..2 : \E a \in sv.inst[i].process.starts :
       /\ a.pc = "query"
       /\ LET s == SupFresh(sv)
          IN SupStep(Deliver(s, i, startImplQueried(s.inst[i].process, a, TRUE, Quiet)))

\* createCdpClient of a process completes.
SupCdpClientCreated ==
  /\ sv.gq = <<>>
  /\ \E i \in 1..2 : \E a \in sv.inst[i].process.starts, ok \in BOOLEAN :
       /\ a.pc = "client"
       /\ LET s == IF ok THEN SupFresh(sv) ELSE Fault(SupFresh(sv))
          IN SupStep(Deliver(s, i, startImplConnected(s.inst[i].process, a, ok, Quiet)))

\* A browser OS process exits on its own.
SupProcessExit ==
  /\ sv.gq = <<>>
  /\ \E i \in 1..2 :
       LET s == Fault(SupFresh(sv))
           p == s.inst[i].process
       IN \E k \in p.alive \ {b.proc : b \in {c \in p.bodies : c.pc = "kill"}} :
            SupStep(Deliver(s, i, onProcessClose(p, k, Quiet)))

\* The connection of the CDP client of a process breaks: the client emits
\* `disconnect` to the listener of the process, then to those of its handles.
SupClientDisconnect ==
  /\ sv.gq = <<>>
  /\ \E i \in 1..2 :
       LET s == Fault(SupFresh(sv))
           p == s.inst[i].process
       IN /\ p.client # 0
          /\ SupStep(onDisconnectOrClose(Deliver(s, i, onClientDisconnect(p, p.client, Quiet)),
                                         i, p.client))

\* client.close() of a stop body completes: the client emits `close` to its
\* handles, then the stop body goes on.
SupClientClosed ==
  /\ sv.gq = <<>>
  /\ \E i \in 1..2 :
       LET s == SupFresh(sv)
           p == s.inst[i].process
       IN \E b \in p.bodies :
            /\ b.pc = "close"
            /\ SupStep(Deliver(onDisconnectOrClose(s, i, b.client), i,
                               stopBodyClientClosed(p, b)))

\* killProcess of a stop body completes.
SupProcessKilled ==
  /\ sv.gq = <<>>
  /\ \E i \in 1..2 :
       LET s == SupFresh(sv)
           p == s.inst[i].process
       IN \E b \in p.bodies :
            /\ b.pc = "kill" /\ b.proc \in p.alive
            /\ SupStep(Deliver(s, i, stopBodyKilled(p, b)))

\* The recycle timer fires: its callback calls recycleMain.
SupRecycleTimeout ==
  /\ sv.gq = <<>>
  /\ sv.recycleTimeout
  /\ SupStep(recycleMain([SupFresh(sv) EXCEPT !.recycleTimeout = FALSE], "timer"))

\* recycleDrainMillis have elapsed for a recycle run that is draining.
SupDrainTimeout ==
  /\ sv.gq = <<>>
  /\ \E b \in sv.recycles :
       /\ b.pc = "drain"
       /\ SupStep(onIdle(SupFresh(sv), b.standby, TRUE))

SupNext ==
  \/ SupStart
  \/ SupClose
  \/ SupCreateHandle
  \/ SupCloseHandle
  \/ SupRecycleMain
  \/ SupRunMicrotask
  \/ SupCdpVersionQueried
  \/ SupCdpClientCreated
  \/ SupProcessExit
  \/ SupClientDisconnect
  \/ SupClientClosed
  \/ SupProcessKilled
  \/ SupRecycleTimeout
  \/ SupDrainTimeout

SupSpec == SupInit /\ [][SupNext]_vars

\* ---------------------------------------------------------------------- \*
\* ExternalBrowserProvider                                                 *
\* ---------------------------------------------------------------------- \*

MaxExtFaults == 3      \* failed connection attempts and disconnects of the endpoint
MaxCloseCalls == 2     \* close() calls awaiting the end of a close run

ExternalBrowserConnectReason == {"startup", "reconnect"}

\* State of an ExternalBrowserProvider after construction.  tries is the
\* state of the reconnect backoff (the tries since its last reset).  Besides
\* the fields of the class: the suspended executions of connect, closeClient
\* and close (connects, closings, closeWaiters), the CDP clients whose
\* connection is up (connected), the microtask queue (gq), the events of the
\* current synchronous run (out) and the failures so far (faults).
NewExternalBrowserProvider ==
  [status |-> "initial", browserClient |-> 0, reconnectTimeout |-> FALSE, tries |-> 0,
   handles |-> {}, closeGuard |-> FALSE, closeWaiters |-> <<>>,
   connects |-> {}, closings |-> {}, connected |-> {},
   gq |-> <<>>, out |-> <<>>, faults |-> 0]

\* A new synchronous run begins: nothing emitted yet.
ExtFresh(x) == [x EXCEPT !.out = <<>>]

\* this.emit(name, data), or a return value handed to the embedding code,
\* with what a listener or the caller can observe at that point.
ExtEmit(this, name, arg) ==
  Then(this, LAMBDA x :
    [x EXCEPT !.out = Append(@, [name |-> name, arg |-> arg, status |-> x.status,
                                 client |-> x.browserClient, handles |-> x.handles,
                                 tries |-> x.tries, timeout |-> x.reconnectTimeout])])

ExtTask(t, arg) == [t |-> t, arg |-> arg]

ExtClientsInUse(x) ==
  {x.browserClient} \cup x.connected \cup {c.client : c \in x.closings}
    \cup {h.client : h \in x.handles}

\* The CDP client that createCdpClient returns.
NewCdpClient(x) ==
  CHOOSE k \in 1..(Cardinality(ExtClientsInUse(x)) + 1) :
    /\ k \notin ExtClientsInUse(x)
    /\ \A j \in 1..(k - 1) : j \in ExtClientsInUse(x)

\* new BrowserHandle(client)
NewExternalHandle(x) ==
  [id |-> CHOOSE n \in 1..MaxHandles :
            /\ n \notin {h.id : h \in x.handles}
            /\ \A j \in 1..(n - 1) : j \in {h.id : h \in x.handles},
   client |-> x.browserClient]

\* createHandle that does not look at the client.
externalCreateHandleUnchecked(this) ==
  Then(this, LAMBDA x :
    Then(NewExternalHandle(x), LAMBDA handle :
      ExtEmit([x EXCEPT !.handles = @ \cup {handle}], "createHandle", "handle")))

\* ExternalBrowserProvider.createHandle
externalCreateHandle(this) ==
  Then(this, LAMBDA x :
    IF x.browserClient = 0 THEN ExtEmit(x, "createHandle", "null")
    ELSE Then(NewExternalHandle(x), LAMBDA handle :
      ExtEmit([x EXCEPT !.handles = @ \cup {handle}], "createHandle", "handle")))

\* handle.close(): the listener of `close` that createHandle attached
\* removes the handle from the set.
externalHandleClose(this, h) == [this EXCEPT !.handles = @ \ {h}]

\* Handles that do not listen to their client.
externalOnDisconnectOrCloseNone(this, k) == this

\* The client k emits `disconnect` or `close` to the handles created on it.
externalOnDisconnectOrClose(this, k) ==
  [this EXCEPT !.handles = {h \in @ : h.client # k}]

\* scheduleReconnect that leaves the timer alone.
scheduleReconnectNever(this) == [this EXCEPT !.tries = @ + 1]

scheduleReconnect(this) ==
  [this EXCEPT !.tries = @ + 1, !.reconnectTimeout = TRUE]

\* connect up to its await of the connection attempt.
connect(this, reason) ==
  Then(this, LAMBDA x :
    [x EXCEPT !.connects = @ \cup {[reason |-> reason, status |-> x.status]}])

\* closeClient up to its await of client.close(); `by` tells who called it.
closeClient(this, client, by) ==
  [this EXCEPT !.closings = @ \cup {[client |-> client, by |-> by]}]

\* connect returns to its caller: start() goes on in a microtask.
connectReturn(this, a) ==
  IF a.reason = "startup"
  THEN [this EXCEPT !.gq = Append(@, ExtTask("started", "none"))]
  ELSE this

\* connect that does not compare the status after its await.
connectDoneUnchecked(this, a, ok) ==
  Then(this, LAMBDA x :
    Then(IF ok THEN NewCdpClient(x) ELSE 0, LAMBDA client :
    Then([x EXCEPT !.connects = @ \ {a},
                   !.connected = IF ok THEN @ \cup {client} ELSE @], LAMBDA x1 :
      IF ~ok
      THEN Then(ExtEmit(x1, "fault", "connect"), LAMBDA x2 :
             IF x2.status # a.status THEN connectReturn(x2, a)
             ELSE connectReturn(scheduleReconnect(x2), a))
      ELSE connectReturn(ExtEmit([x1 EXCEPT !.tries = 0, !.browserClient = client],
                                 "connect", a.reason), a))))

\* connect after its await: the attempt a has succeeded or failed.
connectDone(this, a, ok) ==
  Then(this, LAMBDA x :
    Then(IF ok THEN NewCdpClient(x) ELSE 0, LAMBDA client :
    Then([x EXCEPT !.connects = @ \ {a},
                   !.connected = IF ok THEN @ \cup {client} ELSE @], LAMBDA x1 :
      IF x1.status # a.status
      THEN IF ok THEN closeClient(x1, client, a.reason) ELSE connectReturn(x1, a)
      ELSE IF ~ok
      THEN Then(ExtEmit(x1, "fault", "connect"), LAMBDA x2 :
             IF x2.status # a.status THEN connectReturn(x2, a)
             ELSE connectReturn(scheduleReconnect(x2), a))
      ELSE connectReturn(ExtEmit([x1 EXCEPT !.tries = 0, !.browserClient = client],
                                 "connect", a.reason), a))))

\* start() up to its await of connect.
externalStart(this) ==
  Then(this, LAMBDA x :
    IF x.status = "running" THEN x
    ELSE IF x.status # "initial" THEN ExtEmit(x, "start()", "logic_error")
    ELSE Then(ExtEmit([x EXCEPT !.status = "starting"], "starting", "none"), LAMBDA x1 :
      IF x1.status # "starting" THEN x1
      ELSE connect(x1, "startup")))

\* start() after its await of connect.
externalStarted(this) ==
  Then(this, LAMBDA x :
    IF x.status # "starting" THEN x
    ELSE ExtEmit([x EXCEPT !.status = "running"], "start", "none"))

\* onDisconnect after its await of closeClient.
onDisconnected(this) ==
  Then(this, LAMBDA x :
    IF x.status # "running" THEN x ELSE scheduleReconnect(x))

\* onDisconnect up to its await of closeClient.
onDisconnect(this) ==
  Then(ExtEmit(this, "disconnect", "none"), LAMBDA x :
    IF x.status # "running" THEN x
    ELSE IF x.browserClient # 0
    THEN closeClient([x EXCEPT !.browserClient = 0], x.browserClient, "disconnect")
    ELSE onDisconnected(x))

\* The end of the body of close(): the guard's callback is queued.
externalCloseEnd(this) ==
  [this EXCEPT !.gq = Append(@, ExtTask("close_reset", "none"))]

\* close() up to `await promise`.
externalClose(this) ==
  Then(this, LAMBDA x :
    IF x.closeGuard THEN [x EXCEPT !.closeWaiters = Append(@, FALSE)]
    ELSE Then([x EXCEPT !.closeGuard = TRUE, !.closeWaiters = Append(@, TRUE)], LAMBDA x1 :
      IF x1.status = "closed" THEN externalCloseEnd(x1)
      ELSE Then(ExtEmit([x1 EXCEPT !.status = "closing"], "closing", "none"), LAMBDA x2 :
           Then([x2 EXCEPT !.reconnectTimeout = FALSE], LAMBDA x3 :
             IF x3.browserClient # 0
             THEN closeClient([x3 EXCEPT !.browserClient = 0], x3.browserClient, "close")
             ELSE externalCloseEnd([x3 EXCEPT !.status = "closed"])))))

\* The body of close() after its await of closeClient.
externalClosed(this) == externalCloseEnd([this EXCEPT !.status = "closed"])

\* The callback of ReentrancyGuard.run for close(): reset the guard and
\* settle the promise, which queues the continuations of the close() calls.
externalCloseSettled(this) ==
  Then(this, LAMBDA x :
    [x EXCEPT !.closeGuard = FALSE, !.closeWaiters = <<>>,
              !.gq = @ \o [n \in 1..Len(x.closeWaiters) |->
                             ExtTask("close_resume",
                                     IF x.closeWaiters[n] THEN "first" ELSE "joined")]])

\* close() after `await promise`: "close()" marks the return to the caller.
externalCloseResume(this, m) ==
  Then(IF m.arg = "first" THEN ExtEmit(this, "close", "none") ELSE this, LAMBDA x :
    ExtEmit(x, "close()", m.arg))

\* client.close() of the closeClient call c has completed: the client emits
\* `close` to its handles, and the caller of closeClient goes on in a
\* microtask.
clientClosed(this, c) ==
  Then(externalOnDisconnectOrClose([this EXCEPT !.closings = @ \ {c},
                                                !.connected = @ \ {c.client}],
                                   c.client), LAMBDA x :
    IF c.by = "startup"
    THEN [x EXCEPT !.gq = Append(@, ExtTask("started", "none"))]
    ELSE IF c.by = "reconnect" THEN x
    ELSE [x EXCEPT !.gq = Append(@, ExtTask("client_closed", c.by))])

\* ---------------------------------------------------------------------- \*
\* An ExternalBrowserProvider driven by embedding code                     *
\* ---------------------------------------------------------------------- \*

\* As for the supervisor, the embedding code calls between the tasks of the
\* event loop and its listeners do not call back.  The endpoint fails at
\* most MaxExtFaults times: a connection attempt that fails, or the
\* connection of the client that breaks.

ExtStep(result) ==
  \E x \in {result} :
  /\ x.faults <= MaxExtFaults
  /\ Len(x.closeWaiters) <= MaxCloseCalls
  /\ ext' = x
  /\ UNCHANGED <<bp, log, sv, tab>>

ExtFault(x) == [x EXCEPT !.faults = @ + 1]

ExtInit ==
  /\ bp = NewBrowserProcess(CHOOSE o \in BrowserProcessOptions : TRUE)
  /\ log = <<>>
  /\ sv = <<>>
  /\ ext = NewExternalBrowserProvider
  /\ tab = <<>>

\* provider.start()
ExtStart == ext.gq = <<>> /\ ExtStep(externalStart(ExtFresh(ext)))

\* provider.close()
ExtClose == ext.gq = <<>> /\ ExtStep(externalClose(ExtFresh(ext)))

\* provider.createHandle()
ExtCreateHandle ==
  /\ ext.gq = <<>>
  /\ Cardinality(ext.handles) < MaxHandles
  /\ ExtStep(externalCreateHandle(ExtFresh(ext)))

\* handle.close()
ExtCloseHandle ==
  /\ ext.gq = <<>>
  /\ \E h \in ext.handles : ExtStep(externalHandleClose(ExtFresh(ext), h))

\* The next microtask.
ExtRunMicrotask ==
  /\ ext.gq # <<>>
  /\ LET m == Head(ext.gq)
         x == [ExtFresh(ext) EXCEPT !.gq = Tail(@)]
     IN IF m.t = "started" THEN ExtStep(externalStarted(x))
        ELSE IF m.t = "close_reset" THEN ExtStep(externalCloseSettled(x))
        ELSE IF m.t = "close_resume" THEN ExtStep(externalCloseResume(x, m))
        ELSE IF m.arg = "close" THEN ExtStep(externalClosed(x))
        ELSE ExtStep(onDisconnected(x))

\* A connection attempt completes.
ExtConnectDone ==
  /\ ext.gq = <<>>
  /\ \E a \in ext.connects, ok \in BOOLEAN :
       LET x == IF ok THEN ExtFresh(ext) ELSE ExtFault(ExtFresh(ext))
       IN ExtStep(connectDone(x, a, ok))

\* The connection of the client breaks: the client emits `disconnect` to
\* the listener of the provider, then to those of its handles.
ExtClientDisconnect ==
  /\ ext.gq = <<>>
  /\ ext.browserClient # 0
  /\ ext.browserClient \in ext.connected
  /\ LET x == ExtFault(ExtFresh(ext))
         k == ext.browserClient
     IN ExtStep(externalOnDisconnectOrClose(
                  onDisconnect([x EXCEPT !.connected = @ \ {k}]), k))

\* client.close() of a closeClient call completes.
ExtClientClosed ==
  /\ ext.gq = <<>>
  /\ \E c \in ext.closings : ExtStep(clientClosed(ExtFresh(ext), c))

\* The reconnect timer fires: its callback calls connect.
ExtReconnectTimeout ==
  /\ ext.gq = <<>>
  /\ ext.reconnectTimeout
  /\ ExtStep(connect([ExtFresh(ext) EXCEPT !.reconnectTimeout = FALSE], "reconnect"))

ExtNext ==
  \/ ExtStart
  \/ ExtClose
  \/ ExtCreateHandle
  \/ ExtCloseHandle
  \/ ExtRunMicrotask
  \/ ExtConnectDone
  \/ ExtClientDisconnect
  \/ ExtClientClosed
  \/ ExtReconnectTimeout

ExtSpec == ExtInit /\ [][ExtNext]_vars

\* The event loop runs every microtask, every timer that stays armed fires,
\* and a connection attempt or a client.close() under way completes.
ExtFairness ==
  /\ WF_vars(ExtRunMicrotask)
  /\ WF_vars(ExtConnectDone)
  /\ WF_vars(ExtClientClosed)
  /\ WF_vars(ExtReconnectTimeout)

ExtLiveSpec == ExtInit /\ [][ExtNext]_vars /\ ExtFairness

\* ---------------------------------------------------------------------- \*
\* A BrowserProvider: the supervisor or the external provider             *
\* ---------------------------------------------------------------------- \*

ProviderInit == SupInit \/ ExtInit

ProviderNext ==
  \/ sv # <<>> /\ SupNext
  \/ ext # <<>> /\ ExtNext

ProviderSpec == ProviderInit /\ [][ProviderNext]_vars

\* RenderManager.render up to the call of render(): created is what
\* `await this._browserProvider.createHandle()` has produced - a handle,
\* null, or the LogicError of a supervisor that is not Running, which
\* render() does not catch.
managerRender(created) ==
  IF created = "logic_error" THEN "throws"
  ELSE IF created = "null" THEN "BrowserUnavailable"
  ELSE "render"

\* ---------------------------------------------------------------------- \*
\* A TabRenderer: one render of one page in one tab                        *
\* ---------------------------------------------------------------------- \*

\* The HTTP status codes an initial response carries.
StatusCodes == {200, 404}

\* The page mutates its DOM at most MaxDom times; the DOM is the number of
\* mutations it has seen.
MaxDom == 2

\* No HTML: `_html` null, the saved HTML result of the page undefined.
NoHtml == -1

CompletionTriggerKind == {"Always", "Never", "Variable", "Requests"}

\* expectedStatusCodes: unset, or an array of status codes (isSet).
ExpectedStatusCodes ==
  {[isSet |-> FALSE, codes |-> {}]} \cup
  {[isSet |-> TRUE, codes |-> c] : c \in {{}, {200}, {404}}}

TabRenderOptions ==
  [freshBrowserContext : BOOLEAN, allowPartialLoad : BOOLEAN,
   expectedStatusCodes : ExpectedStatusCodes, trigger : CompletionTriggerKind]

\* The fields of a TabRenderer after its constructor, the RequestWatcher it
\* owns (watcher), the timer of willTimeout (timer), the position of
\* renderImpl (pc) and of loadPage (load), and what the render has in the
\* browser: the target and the context it created (liveTarget,
\* liveContext), the page in the tab (page) and the value the page has
\* computed for the expression of readHtml (evaluated).  timedOut, dclAtTimeout,
\* statusOk, closeFailed and domAtSignal record what has happened.
NewTabRenderer(o) ==
  [options |-> o, startedAt |-> FALSE, pc |-> "new", load |-> "idle",
   browserContext |-> FALSE, target |-> FALSE, client |-> "none",
   domContentLoaded |-> FALSE, resolvedUrl |-> FALSE,
   completion |-> "none", html |-> NoHtml, error |-> "none",
   evaluated |-> NoHtml,
   readThrew |-> FALSE,
   watcher |-> [state |-> "initial",
                initialRequest |-> [readyState |-> "none", responded |-> FALSE,
                                    statusCode |-> 0]],
   timer |-> "off", result |-> <<>>,
   liveTarget |-> FALSE, liveContext |-> FALSE,
   page |-> [dom |-> 0, signalled |-> FALSE, saved |-> NoHtml],
   timedOut |-> FALSE, dclAtTimeout |-> FALSE, statusOk |-> "unchecked",
   closeFailed |-> {}, domAtSignal |-> NoHtml]

\* RequestWatcher.initialRequest: the initial request once it is Loaded or
\* Failed, null (FALSE) before.
initialRequest(w) ==
  w.initialRequest.readyState \in {"loaded", "failed"}

\* TabRenderer.getResult
getResult(t) ==
  LET hasStatus == initialRequest(t.watcher) /\ t.watcher.initialRequest.responded
      base == [hasStatus |-> hasStatus,
               httpStatus |-> IF hasStatus THEN t.watcher.initialRequest.statusCode ELSE 0]
  IN  IF t.error # "none"
      THEN base @@ [ok |-> FALSE, type |-> t.error, completion |-> "none",
                    html |-> NoHtml, resolvedUrl |-> FALSE]
      ELSE base @@ [ok |-> TRUE, type |-> "none", completion |-> t.completion,
                    html |-> t.html, resolvedUrl |-> t.resolvedUrl]

\* TabRenderer.initialRequestStatusOk: an array, also an empty one, is
\* truthy.
initialRequestStatusOk(o, statusCode) ==
  IF ~o.expectedStatusCodes.isSet THEN TRUE
  ELSE statusCode \in o.expectedStatusCodes.codes

\* renderImpl has returned or thrown, render() goes on: getResult, or the
\* exception of readHtml.
renderSettles(t) ==
  IF t.readThrew THEN [t EXCEPT !.pc = "rejected"]
  ELSE [t EXCEPT !.pc = "settled", !.result = getResult(t)]

\* A close that leaves the target to the browser.
closeFromTargetContextOnly(t) ==
  IF t.browserContext THEN [t EXCEPT !.pc = "closeContext"]
  ELSE renderSettles(t)

\* TabRenderer.close from `if (this._target)` on.
closeFromTarget(t) ==
  IF t.target THEN [t EXCEPT !.pc = "closeTarget"]
  ELSE IF t.browserContext THEN [t EXCEPT !.pc = "closeContext"]
  ELSE renderSettles(t)

\* TabRenderer.close up to its first await: the dialog handler, the request
\* watcher and the completion trigger are closed in this run.
close(t) ==
  LET c == [t EXCEPT !.watcher.state = "closed"]
  IN  IF c.client # "none" THEN [c EXCEPT !.pc = "closeClient"]
      ELSE closeFromTarget(c)

\* renderImpl after `await willTimeout(...)`, timeout false.
renderAfterLoad(t) ==
  IF t.error # "none" THEN close(t)
  ELSE [t EXCEPT !.pc = "readHtml"]

\* loadPage has returned or thrown.  While renderImpl waits for it the
\* timer is cleared and renderImpl goes on in the same run.
loadPageSettles(t, how) ==
  LET l == [t EXCEPT !.load = how]
  IN  IF t.pc = "loadPage" THEN renderAfterLoad([l EXCEPT !.timer = "cleared"])
      ELSE l

\* loadPage from `await this._completionTrigger.wait()` on, the trigger
\* having completed.
loadPageCompleted(t, completion) ==
  IF t.error # "none" THEN loadPageSettles(t, "returned")
  ELSE loadPageSettles([t EXCEPT !.completion = completion], "returned")

\* loadPage after `await initialRequestPromise`.
loadPageInitialRequest(t) ==
  LET r == t.watcher.initialRequest
      u == [t EXCEPT !.resolvedUrl = TRUE]
  IN  IF t.error # "none" THEN loadPageSettles(t, "returned")
      ELSE IF r.readyState # "loaded"
        THEN loadPageSettles([u EXCEPT !.error = "InitialRequestFailed"], "returned")
      ELSE IF ~initialRequestStatusOk(t.options, r.statusCode)
        THEN loadPageSettles([u EXCEPT !.error = "InitialRequestStatus",
                                       !.statusOk = "rejected"], "returned")
      ELSE LET a == [u EXCEPT !.statusOk = "accepted"]
           IN  IF t.options.trigger = "Always" THEN loadPageCompleted(a, "Always")
               ELSE [a EXCEPT !.load = "trigger"]

\* The initial request is Loaded or Failed: onRequestDone resolves the
\* promise loadPage may be waiting for.
onRequestDone(t) ==
  IF t.load = "initialRequest" THEN loadPageInitialRequest(t) ELSE t

\* createTab has caught an exception; renderImpl returns through finally.
createTabFailed(t) == close([t EXCEPT !.error = "TabCreationFailed"])

TabStep(t) ==
  /\ tab' = t
  /\ UNCHANGED <<bp, log, sv, ext>>

TabInit ==
  /\ bp = NewBrowserProcess(CHOOSE o \in BrowserProcessOptions : TRUE)
  /\ log = <<>>
  /\ sv = <<>>
  /\ ext = <<>>
  /\ tab \in {NewTabRenderer(o) : o \in TabRenderOptions}

\* render(): createTab sends its first command.
TabRender ==
  /\ tab.pc = "new"
  /\ TabStep([tab EXCEPT !.startedAt = TRUE,
                         !.pc = IF tab.options.freshBrowserContext
                                THEN "createContext" ELSE "createTarget"])

\* Target.createBrowserContext answers.
TabContextCreated ==
  /\ tab.pc = "createContext"
  /\ \E ok \in BOOLEAN :
       TabStep(IF ok THEN [tab EXCEPT !.browserContext = TRUE, !.liveContext = TRUE,
                                      !.pc = "createTarget"]
               ELSE createTabFailed(tab))

\* Target.createTarget answers.
TabTargetCreated ==
  /\ tab.pc = "createTarget"
  /\ \E ok \in BOOLEAN :
       TabStep(IF ok THEN [tab EXCEPT !.target = TRUE, !.liveTarget = TRUE,
                                      !.pc = "createClient"]
               ELSE createTabFailed(tab))

\* createCdpClient answers.
TabClientCreated ==
  /\ tab.pc = "createClient"
  /\ \E ok \in BOOLEAN :
       TabStep(IF ok THEN [tab EXCEPT !.client = "open", !.pc = "setup"]
               ELSE createTabFailed(tab))

\* The last of the commands createTab sends over the client of the tab
\* answers: the listeners are in place and loadPage sends Page.navigate
\* under the page load timeout; or one of them fails.
TabSetupDone ==
  /\ tab.pc = "setup"
  /\ \E ok \in BOOLEAN :
       TabStep(IF ok THEN [tab EXCEPT !.watcher.state = "watching", !.pc = "loadPage",
                                      !.load = "navigate", !.timer = "armed"]
               ELSE createTabFailed(tab))

\* render() has not settled: what the tab does after that reaches nothing.
Rendering(t) == t.pc \notin {"new", "settled", "rejected"}

\* Page.navigate answers.
TabNavigated ==
  /\ Rendering(tab)
  /\ tab.load = "navigate"
  /\ tab.client = "open"
  /\ \E ok \in BOOLEAN :
       TabStep(IF ~ok THEN loadPageSettles(tab, "thrown")
               ELSE IF tab.error # "none" THEN loadPageSettles(tab, "returned")
               ELSE IF initialRequest(tab.watcher)
                 THEN loadPageInitialRequest(tab)
               ELSE [tab EXCEPT !.load = "initialRequest"])

\* The events of the tab reach the request watcher.
Watching(t) ==
  /\ Rendering(t)
  /\ t.client = "open"
  /\ t.watcher.state = "watching"
  /\ t.load # "idle"

\* Network.requestWillBeSent
TabRequestWillBeSent ==
  /\ Watching(tab)
  /\ tab.watcher.initialRequest.readyState = "none"
  /\ TabStep([tab EXCEPT !.watcher.initialRequest.readyState = "pending"])

\* Network.responseReceived
TabResponseReceived ==
  /\ Watching(tab)
  /\ tab.watcher.initialRequest.readyState = "pending"
  /\ \E s \in StatusCodes :
       TabStep([tab EXCEPT !.watcher.initialRequest =
                  [readyState |-> "response", responded |-> TRUE, statusCode |-> s]])

\* Network.loadingFinished
TabLoadingFinished ==
  /\ Watching(tab)
  /\ tab.watcher.initialRequest.readyState = "response"
  /\ TabStep(onRequestDone([tab EXCEPT !.watcher.initialRequest.readyState = "loaded"]))

\* Network.loadingFailed
TabLoadingFailed ==
  /\ Watching(tab)
  /\ tab.watcher.initialRequest.readyState \in {"pending", "response"}
  /\ TabStep(onRequestDone([tab EXCEPT !.watcher.initialRequest.readyState = "failed"]))

\* Page.domContentEventFired
TabDomContentEventFired ==
  /\ Rendering(tab)
  /\ tab.client = "open"
  /\ tab.watcher.initialRequest.readyState # "none"
  /\ ~tab.domContentLoaded
  /\ TabStep([tab EXCEPT !.domContentLoaded = TRUE])

\* The page assigns true to the variable (dispatches the event) for the
\* first time: the script of the trigger saves the HTML result.
TabPageSignals ==
  /\ Rendering(tab)
  /\ tab.options.trigger = "Variable"
  /\ tab.liveTarget
  /\ tab.watcher.initialRequest.readyState # "none"
  /\ ~tab.page.signalled
  /\ TabStep([tab EXCEPT !.page.signalled = TRUE, !.page.saved = tab.page.dom,
                         !.domAtSignal = tab.page.dom])

\* The page mutates its DOM.
TabPageMutates ==
  /\ Rendering(tab)
  /\ tab.liveTarget
  /\ tab.watcher.initialRequest.readyState # "none"
  /\ tab.page.dom < MaxDom
  /\ TabStep([tab EXCEPT !.page.dom = @ + 1])

\* wait() of the completion trigger resolves.
TabTriggerCompleted ==
  /\ Rendering(tab)
  /\ tab.load = "trigger"
  /\ tab.client = "open"
  /\ \/ tab.options.trigger = "Variable" /\ tab.page.signalled
     \/ /\ tab.options.trigger = "Requests"
        /\ tab.domContentLoaded
        /\ tab.watcher.state = "watching"
  /\ TabStep(loadPageCompleted(tab, tab.options.trigger))

\* pageLoadTimeoutMillis elapses while renderImpl waits for loadPage.
TabPageLoadTimeout ==
  /\ tab.pc = "loadPage"
  /\ tab.timer = "armed"
  /\ LET t == [tab EXCEPT !.timer = "fired", !.timedOut = TRUE,
                          !.dclAtTimeout = tab.domContentLoaded]
     IN  TabStep(IF t.error # "none" THEN close(t)
                 ELSE IF ~t.domContentLoaded THEN close([t EXCEPT !.error = "Timeout"])
                 ELSE IF ~t.options.allowPartialLoad
                   THEN close([t EXCEPT !.error = "Timeout"])
                 ELSE [t EXCEPT !.completion = "PageLoadTimeout", !.pc = "readHtml"])

\* The expression of readHtml that reads the document and nothing else.
readHtmlValueCurrent(page) == page.dom

\* readHtml: the value the page computes for the expression
\* `getHtmlResult ?? readHtmlExpr`.
readHtmlValue(page) == IF page.saved # NoHtml THEN page.saved ELSE page.dom

\* The page evaluates the expression of readHtml.
TabHtmlEvaluated ==
  /\ tab.pc = "readHtml"
  /\ tab.evaluated = NoHtml
  /\ TabStep([tab EXCEPT !.evaluated = readHtmlValue(tab.page)])

\* Runtime.evaluate of readHtml answers with the HTML, answers without a
\* value, or fails.
TabHtmlRead ==
  /\ tab.pc = "readHtml"
  /\ tab.client = "open"
  /\ \E ok \in BOOLEAN :
       /\ ok => tab.evaluated # NoHtml
       /\ TabStep(IF ok THEN close([tab EXCEPT !.html = tab.evaluated])
                  ELSE close([tab EXCEPT !.readThrew = TRUE]))

\* client.close() of the tab settles.
TabClientClosed ==
  /\ tab.pc = "closeClient"
  /\ \E ok \in BOOLEAN :
       TabStep(closeFromTarget(
         IF ok THEN [tab EXCEPT !.client = "closed"]
         ELSE [tab EXCEPT !.closeFailed = @ \cup {"client"}]))

\* Target.closeTarget answers.
TabTargetClosed ==
  /\ tab.pc = "closeTarget"
  /\ \E ok \in BOOLEAN :
       LET t == IF ok THEN [tab EXCEPT !.liveTarget = FALSE]
                ELSE [tab EXCEPT !.closeFailed = @ \cup {"target"}]
       IN  TabStep(IF t.browserContext THEN [t EXCEPT !.pc = "closeContext"]
                   ELSE renderSettles(t))

\* Target.disposeBrowserContext answers; the browser closes the targets of
\* a context it disposes.
TabContextDisposed ==
  /\ tab.pc = "closeContext"
  /\ \E ok \in BOOLEAN :
       TabStep(renderSettles(
         IF ok THEN [tab EXCEPT !.liveContext = FALSE, !.liveTarget = FALSE]
         ELSE [tab EXCEPT !.closeFailed = @ \cup {"context"}]))

TabNext ==
  \/ TabRender
  \/ TabContextCreated
  \/ TabTargetCreated
  \/ TabClientCreated
  \/ TabSetupDone
  \/ TabNavigated
  \/ TabRequestWillBeSent
  \/ TabResponseReceived
  \/ TabLoadingFinished
  \/ TabLoadingFailed
  \/ TabDomContentEventFired
  \/ TabPageSignals
  \/ TabPageMutates
  \/ TabTriggerCompleted
  \/ TabPageLoadTimeout
  \/ TabHtmlEvaluated
  \/ TabHtmlRead
  \/ TabClientClosed
  \/ TabTargetClosed
  \/ TabContextDisposed

TabSpec == TabInit /\ [][TabNext]_vars

\* ---------------------------------------------------------------------- \*
\* A RequestsCompletionTrigger                                             *
\* ---------------------------------------------------------------------- \*

\* The page sends at most MaxRequests requests.
MaxRequests == 3

\* The fields of a RequestsCompletionTrigger after init: the quiet-period
\* timer is armed or not (timeout), the two promise sources are resolved or
\* not, the ids of the requests in flight, whether the handlers are on the
\* client (listening) and the position of wait().  started counts the
\* requests so far; quiet holds while a quiet period has run its full
\* length and no request has started since.
NewRequestsCompletionTrigger ==
  [timeout |-> FALSE, requestSource |-> FALSE, domContentLoadedSource |-> FALSE,
   pendingRequests |-> {}, listening |-> TRUE, wait |-> "idle",
   started |-> 0, quiet |-> FALSE]

\* The continuations of wait() that the promises resolved so far let run.
waitResumes(t) ==
  LET a == IF t.wait = "domContentLoaded" /\ t.domContentLoadedSource
           THEN [t EXCEPT !.wait = "requests"] ELSE t
  IN  IF a.wait = "requests" /\ a.requestSource
      THEN [a EXCEPT !.wait = "resolved"] ELSE a

\* RequestsCompletionTrigger.onRequestStart
onRequestStart(t, id) ==
  [t EXCEPT !.pendingRequests = @ \cup {id}, !.timeout = FALSE]

\* RequestsCompletionTrigger.onRequestEnd
onRequestEnd(t, id) ==
  IF id \notin t.pendingRequests THEN t
  ELSE LET d == [t EXCEPT !.pendingRequests = @ \ {id}]
       IN  IF d.pendingRequests = {} THEN [d EXCEPT !.timeout = TRUE] ELSE d

RequestsInit ==
  /\ bp = NewBrowserProcess(CHOOSE o \in BrowserProcessOptions : TRUE)
  /\ log = <<>>
  /\ sv = <<>>
  /\ ext = <<>>
  /\ tab = NewRequestsCompletionTrigger

\* wait()
RequestsWait ==
  /\ tab.wait = "idle"
  /\ TabStep(waitResumes([tab EXCEPT !.wait = "domContentLoaded"]))

\* Network.requestWillBeSent of a new request
RequestsRequestStart ==
  /\ tab.listening
  /\ tab.started < MaxRequests
  /\ TabStep([onRequestStart(tab, tab.started + 1) EXCEPT
                !.started = @ + 1, !.quiet = FALSE])

\* Network.loadingFinished, Network.loadingFailed
RequestsRequestEnd ==
  /\ tab.listening
  /\ \E id \in tab.pendingRequests : TabStep(onRequestEnd(tab, id))

\* Page.domContentEventFired
RequestsDomContentEventFired ==
  /\ tab.listening
  /\ ~tab.domContentLoadedSource
  /\ TabStep(waitResumes([tab EXCEPT !.domContentLoadedSource = TRUE]))

\* The quiet-period timer fires, waitAfterLastRequestMillis after the last
\* request in flight ended.
RequestsQuietTimeout ==
  /\ tab.timeout
  /\ TabStep(waitResumes([tab EXCEPT !.timeout = FALSE, !.requestSource = TRUE,
                                     !.quiet = TRUE]))

\* close()
RequestsClose ==
  /\ tab.listening
  /\ TabStep([tab EXCEPT !.timeout = FALSE, !.listening = FALSE])

RequestsNext ==
  \/ RequestsWait
  \/ RequestsRequestStart
  \/ RequestsRequestEnd
  \/ RequestsDomContentEventFired
  \/ RequestsQuietTimeout
  \/ RequestsClose

RequestsSpec == RequestsInit /\ [][RequestsNext]_vars


TypeOK == bp.status \in BrowserProcessStatus

\* The policy that applies to the fault logged at position n: retryStartup
\* for a fault while Starting, autoRestart for a fault while Running.
RestartEnabled(n) ==
  IF log[n - 1].name = "starting" THEN bp.options.retryStartup
  ELSE bp.options.autoRestart

FaultAt(n) == n \in DOMAIN log /\ log[n].name = "fault"

\* The events that follow the fault logged at position n.
FaultFollowUp(n) ==
  /\ n + 1 \in DOMAIN log =>
       log[n + 1] = [name |-> "stopping", reason |-> "faulted"]
  /\ n + 2 \in DOMAIN log =>
       log[n + 2] = [name |-> "stop", reason |-> "faulted"]
  /\ n + 3 \in DOMAIN log =>
       /\ log[n + 3] = [name |-> "starting", reason |-> "auto_restart"]
       /\ RestartEnabled(n)
  /\ (~RestartEnabled(n) /\ Len(log) = n + 2 /\ bp.mq = <<>>) =>
       (bp.status = "stopped" /\ ~bp.restartTimeout)

RunningAgain(n) ==
  \/ bp.status = "running" /\ Len(log) > n
  \/ \E j \in DOMAIN log : j > n /\ log[j].name = "fault"

\* A fault that calls for a restart has not been recovered from yet.
Recovering ==
  \E n \in DOMAIN log : FaultAt(n) /\ RestartEnabled(n) /\ ~RunningAgain(n)

\* C4: an unattended process that faults goes through fault, stopping, stop
\* and, exactly when the policy that applies is enabled, starting with
\* reason AutoRestart, and then reaches Running again unless the browser
\* fails again; with the policy disabled it stays Stopped.
C4_AutoRestart ==
  /\ [](\A n \in DOMAIN log : FaultAt(n) => FaultFollowUp(n))
  /\ Recovering ~> ~Recovering

C4_Witness ==
  \E n \in DOMAIN log :
    /\ FaultAt(n) /\ RestartEnabled(n)
    /\ Len(log) = n + 4
    /\ log[n + 3].name = "starting" /\ log[n + 4].name = "start"
    /\ bp.status = "running"

Events(p, name) == {p.out[i] : i \in {j \in DOMAIN p.out : p.out[j].name = name}}

\* C1: a start attempt that has been superseded (by stop() or by a later
\* start) aborts silently: the run in which it finds itself canceled emits
\* nothing and changes no status; `start` and `fault` are emitted only by the
\* attempt of the current version, and a Running process holds the client of
\* the current version.
C1_SupersededStartIsSilent ==
  /\ \A e \in Events(bp, "start") \cup Events(bp, "fault") : e.by = e.version
  /\ \A e \in Events(bp, "start") : e.client = e.by /\ e.status = "running"
  /\ bp.status = "running" => bp.client = bp.version
  /\ bp.aborted # 0 => (bp.out = <<>> /\ bp.trans = <<>> /\ bp.aborted # bp.version)

\* An attempt aborts after a stop and a later start, and the later attempt
\* is the one that is Running.
C1_Witness ==
  /\ bp.aborted # 0
  /\ bp.status = "running"
  /\ bp.client > bp.aborted

ProcessEdges ==
  {<<"initial", "starting">>, <<"stopped", "starting">>, <<"starting", "running">>,
   <<"starting", "faulted">>, <<"running", "faulted">>, <<"faulted", "stopping">>,
   <<"stopping", "stopped">>}
    \cup {<<x, "stopping">> : x \in BrowserProcessStatus \ {"stopped"}}

\* C2: every status change is an edge of the process state machine.
C2_StatusEdges ==
  \A i \in DOMAIN bp.trans : bp.trans[i] \in ProcessEdges

\* C3: stop() calls made while a stop is in progress share its run: no
\* `stopping` event is emitted while the body of a stop run is closing the
\* client or killing the OS process, and no two bodies run at once.
C3_SharedStopRun ==
  /\ \A e \in Events(bp, "stopping") : e.active = 0
  /\ Cardinality(bp.bodies) <= 1

\* The events of the step record a start() called by the embedding code
\* after a fault-induced stop: from a listener of that stop's `stop` event,
\* or while the restart delay was pending.
ManualStartAfterFault ==
  LET o == bp'.out
  IN \/ \E i \in DOMAIN o : /\ o[i].name = "stop" /\ o[i].reason = "faulted"
                            /\ i + 1 \in DOMAIN o
                            /\ o[i + 1].name = "starting" /\ o[i + 1].reason = "requested"
     \/ /\ bp.restartTimeout
        /\ o # <<>> /\ o[1].name = "starting" /\ o[1].reason = "requested"

\* The continuation of onFaulted that is next in the microtask queue belongs
\* to a recovery that a call of start() or stop() has taken over.
SupersededRecovery ==
  /\ bp.mq # <<>>
  /\ Head(bp.mq).t = "faulted"
  /\ Head(bp.mq).version # bp.version

\* C5: a start() called after a fault-induced stop, from a `stop` listener or
\* while the restart delay is pending, is the only start of that recovery:
\* startCounter grows by one, the only `starting` event has reason Requested,
\* no restart remains scheduled, and onFaulted, when it goes on after that
\* call, does nothing.
C5_ManualStartAbortsAutoRestart ==
  /\ [][ManualStartAfterFault =>
         /\ bp'.startCounter = bp.startCounter + 1
         /\ \A e \in Events(bp', "starting") : e.reason = "requested"
         /\ Cardinality({i \in DOMAIN bp'.out : bp'.out[i].name = "starting"}) = 1
         /\ ~bp'.restartTimeout]_vars
  /\ [](SupersededRecovery =>
         \A spawnOk \in BOOLEAN, R \in ReactionsTo({"starting", "stopping", "fault"}) :
           onFaultedResume([Fresh(bp) EXCEPT !.mq = Tail(@)], Head(bp.mq), spawnOk, R)
             = [Fresh(bp) EXCEPT !.mq = Tail(@)])

\* start() was called in a `stop` listener after a fault while an automatic
\* restart was due, and the process is Starting on behalf of that call.
C5_Witness ==
  /\ \E i \in DOMAIN bp.out : /\ bp.out[i].name = "stop" /\ bp.out[i].reason = "faulted"
                              /\ i + 1 \in DOMAIN bp.out
                              /\ bp.out[i + 1].name = "starting"
                              /\ bp.out[i + 1].reason = "requested"
  /\ bp.options.autoRestart /\ bp.options.retryStartup
  /\ bp.status = "starting"
  /\ SupersededRecovery

\* ---------------------------------------------------------------------- \*
\* Properties of the BrowserSupervisor                                     *
\* ---------------------------------------------------------------------- \*

\* The positions in the events of the current run that carry the name.
SupEvents(name) == {n \in DOMAIN sv.out : sv.out[n].name = name}

\* The takeover, if any, that the call of considerStandbyPromotion marked at
\* position n led to.
TakeoverOf(n) ==
  {m \in SupEvents("takeover") :
     /\ m > n
     /\ \A k \in (n + 1)..(m - 1) : sv.out[k].name # "handle"}

\* C6: while the supervisor is Running, the handling of a process `start` or
\* `fault` event swaps the roles and emits takeover{Fault} exactly if at that
\* moment the main's process is not Running and the standby's is; so there
\* is no takeover while both are down, and the instance whose process comes
\* up while the other is down is Main afterwards.  Nothing else emits
\* takeover{Fault}.
C6_PromotionOnFault ==
  /\ \A n \in SupEvents("handle") :
       LET e == sv.out[n]
           main == e.instances[1]
           standby == e.instances[2]
       IN e.status = "running" =>
            /\ (TakeoverOf(n) # {}) <=> (e.st[main] # "running" /\ e.st[standby] = "running")
            /\ \A m \in TakeoverOf(n) :
                 /\ sv.out[m].arg = "fault"
                 /\ sv.out[m].instances = <<standby, main>>
                 /\ sv.out[m].roles[standby] = "main" /\ sv.out[m].roles[main] = "standby"
            /\ (e.arg = "start" /\ e.st[3 - e.inst] # "running") =>
                 sv.instances[1] = e.inst
  /\ \A m \in SupEvents("takeover") :
       sv.out[m].arg = "fault" => \E n \in SupEvents("handle") : m \in TakeoverOf(n)

\* The process of the standby has come up while the main's was down, and the
\* standby has been promoted.
C6_Witness ==
  \E n \in SupEvents("handle") :
    /\ sv.out[n].arg = "start" /\ sv.out[n].status = "running"
    /\ sv.out[n].st[sv.out[n].instances[1]] \in {"starting", "stopping", "faulted", "stopped"}
    /\ TakeoverOf(n) # {}
    /\ sv.faults > 0

\* One instance is Main, the other Standby, and _instances lists them so.
RolesOK(instances, roles) ==
  /\ instances \in {<<1, 2>>, <<2, 1>>}
  /\ roles[instances[1]] = "main"
  /\ roles[instances[2]] = "standby"

\* The values of _instances that the run from sv to sv' shows: before the
\* run, at each emitted event, after the run.
InstancesSeen ==
  <<sv.instances>> \o [n \in DOMAIN sv'.out |-> sv'.out[n].instances] \o <<sv'.instances>>

\* C7: whenever a listener or a caller can look, exactly one instance has
\* role Main and the other Standby; and a run emits as many takeover events
\* as it swaps the roles.
C7_OneMainOneStandby ==
  /\ [](/\ RolesOK(sv.instances, <<sv.inst[1].role, sv.inst[2].role>>)
        /\ \A n \in DOMAIN sv.out : RolesOK(sv.out[n].instances, sv.out[n].roles))
  /\ [][Cardinality({n \in DOMAIN sv'.out : sv'.out[n].name = "takeover"})
          = Cardinality({n \in 2..Len(InstancesSeen) :
                           InstancesSeen[n] # InstancesSeen[n - 1]})]_vars

\* A takeover has been emitted, which made the second instance Main.
C7_Witness ==
  /\ SupEvents("takeover") # {}
  /\ sv.instances = <<2, 1>>
  /\ sv.inst[2].role = "main"

RecycleResumes ==
  {n \in DOMAIN sv.gq : sv.gq[n].inst = 0 /\ sv.gq[n].task.t = "recycle_resume"}

\* C9: at most one recycle run is in progress and every recycleMain call
\* awaits it; the calls of a run all get the same result, one of Recycled,
\* Canceled and StandbyUnavailable; and the run emits one `recycle` event
\* with that result, on the return of the call that started it.
C9_SingleFlight ==
  /\ Cardinality(sv.recycles) <= 1
  /\ \A b \in sv.recycles : b.promise = sv.recycleGuard
  /\ \A n \in DOMAIN sv.recycleWaiters :
       /\ sv.recycleGuard # 0
       /\ sv.recycleWaiters[n].promise = sv.recycleGuard
       /\ sv.recycleWaiters[n].first <=> n = 1
  /\ \A n \in RecycleResumes, m \in RecycleResumes :
       sv.gq[n].task.promise = sv.gq[m].task.promise =>
         sv.gq[n].task.reason = sv.gq[m].task.reason
  /\ \A n \in SupEvents("recycleMain") \cup SupEvents("recycleMain_joined") :
       sv.out[n].arg \in BrowserRecycleResult
  /\ \A n \in SupEvents("recycleMain") :
       /\ Cardinality(SupEvents("recycle")) = 1
       /\ \A m \in SupEvents("recycle") : sv.out[m].arg = sv.out[n].arg
  /\ SupEvents("recycleMain") = {} => SupEvents("recycle") = {}

\* The recycle run b has gone from before its `await standby.stop()` to it.
BeginsStop(b) ==
  /\ b \in sv'.recycles /\ b.pc = "stop"
  /\ \A b0 \in sv.recycles : b0.promise = b.promise => b0.pc # "stop"

\* The recycle run b has ended in this step.
Ends(b) == b \in sv.recycles /\ \A b1 \in sv'.recycles : b1.promise # b.promise

RecycleResults(s, k) ==
  {s.gq[n].task.reason :
     n \in {m \in DOMAIN s.gq : /\ s.gq[m].inst = 0
                                /\ s.gq[m].task.t = "recycle_reset"
                                /\ s.gq[m].task.promise = k}}

\* The decision at the checkpoint after draining, from the status of the
\* supervisor and the role and process status of the demoted instance.
AfterDrain(status, role, pstatus) ==
  IF status # "running" THEN "canceled"
  ELSE IF role # "standby" THEN "standby_unavailable"
  ELSE IF pstatus # "running" THEN "canceled"
  ELSE "stop"

\* What the recycle run k has come to in supervisor s: its result, or the
\* await at which it is suspended.
RecycleOutcome(s, k) ==
  RecycleResults(s, k) \cup {b.pc : b \in {c \in s.recycles : c.promise = k}}

\* The supervisor task t of the recycle run k is the next microtask.
NextTask(t, k) ==
  /\ sv.gq # <<>>
  /\ Head(sv.gq).inst = 0
  /\ Head(sv.gq).task.t = t
  /\ Head(sv.gq).task.promise = k

\* C11: after the initial swap the result of a recycle run is decided at its
\* checkpoints.  After draining (or at once, if the demoted instance has no
\* handle): Canceled if the supervisor is not Running, else StandbyUnavailable
\* if the demoted instance is not Standby any more, else Canceled if its
\* process is not Running, else the instance is stopped.  After that stop:
\* Canceled if the supervisor is not Running, else the process (Stopped) is
\* started and the result is Recycled.  A run returns nowhere else, and its
\* callers are given the result of its body.
C11_RecycleCheckpoints ==
  [][/\ \A n \in DOMAIN sv'.out :
          sv'.out[n].name = "takeover" /\ sv'.out[n].arg = "recycle" =>
            LET e == sv'.out[n]
                i == e.instances[2]
                k == sv'.recycleGuard
            IN IF sv.inst[i].handles # {} THEN RecycleOutcome(sv', k) = {"drain"}
               ELSE LET r == AfterDrain(e.status, e.roles[i], e.st[i])
                    IN /\ RecycleOutcome(sv', k) = {r}
                       /\ r = "stop" => sv'.inst[i].process.status = "stopping"
     /\ \A b \in sv.recycles :
          /\ NextTask("recycle_drained", b.promise) =>
               LET r == AfterDrain(sv.status, sv.inst[b.standby].role,
                                   sv.inst[b.standby].process.status)
               IN /\ RecycleOutcome(sv', b.promise) = {r}
                  /\ IF r = "stop" THEN sv'.inst[b.standby].process.status = "stopping"
                     ELSE sv'.inst[b.standby].process = Fresh(sv.inst[b.standby].process)
          /\ NextTask("recycle_stopped", b.promise) =>
               IF sv.status # "running" THEN RecycleOutcome(sv', b.promise) = {"canceled"}
               ELSE /\ sv.inst[b.standby].process.status = "stopped"
                    /\ sv'.inst[b.standby].process.status = "starting"
                    /\ sv'.inst[b.standby].process.version = sv.inst[b.standby].process.version + 1
                    /\ RecycleOutcome(sv', b.promise) = {"start"}
          /\ ~NextTask("recycle_drained", b.promise) /\ ~NextTask("recycle_stopped", b.promise) =>
               RecycleResults(sv', b.promise) \subseteq
                 (IF b.pc = "start" THEN {"recycled"} ELSE {})
     /\ sv.gq # <<>> /\ Head(sv.gq).inst = 0 /\ Head(sv.gq).task.t = "recycle_reset" =>
          \A n \in DOMAIN sv'.gq :
            sv'.gq[n].inst = 0 /\ sv'.gq[n].task.t = "recycle_resume"
              /\ sv'.gq[n].task.promise = Head(sv.gq).task.promise =>
                sv'.gq[n].task.reason = Head(sv.gq).task.reason
     /\ sv.gq # <<>> /\ Head(sv.gq).inst = 0 /\ Head(sv.gq).task.t = "recycle_resume"
          /\ Head(sv.gq).task.reason # "logic_error" =>
          \E n \in DOMAIN sv'.out :
            /\ sv'.out[n].name \in {"recycleMain", "recycleMain_joined"}
            /\ sv'.out[n].arg = Head(sv.gq).task.reason]_vars

\* A recycle run has come to Recycled: the demoted instance, still Standby,
\* was stopped and is in its second life.
C11_Witness ==
  \E k \in 1..MaxPromise :
    /\ RecycleResults(sv, k) = {"recycled"}
    /\ sv.status = "running"
    /\ sv.inst[sv.instances[2]].process.status = "running"
    /\ sv.inst[sv.instances[2]].process.version >= 2

\* C12: recycleMain never raises to its caller, whatever the status of the
\* supervisor when it is called: every return of recycleMain hands out
\* Recycled, Canceled or StandbyUnavailable, and with the return to the
\* caller that started the run a `recycle` event reports that result.
C12_RecycleNeverRaises ==
  /\ \A n \in SupEvents("recycleMain") \cup SupEvents("recycleMain_joined") :
       sv.out[n].arg \in BrowserRecycleResult
  /\ \A n \in SupEvents("recycleMain") :
       \E m \in SupEvents("recycle") : sv.out[m].arg = sv.out[n].arg

\* A callback of the recycle timer is awaiting the recycle run it started or
\* joined, or is about to be given its result.
TimerCallbackPending ==
  \/ \E n \in DOMAIN sv.recycleWaiters : sv.recycleWaiters[n].kind = "timer"
  \/ \E n \in DOMAIN sv.gq :
       /\ sv.gq[n].inst = 0
       /\ sv.gq[n].task.t = "recycle_resume"
       /\ sv.gq[n].task.kind = "timer"

C14_ClosedMeansStopped ==
  sv.status = "closed" =>
    \A i \in 1..2 :
      /\ sv.inst[i].process.status = "stopped"
      /\ \A a \in sv.inst[i].process.starts : isCanceled(sv.inst[i].process, a)
      /\ ~sv.inst[i].process.restartTimeout
      /\ sv.inst[i].process.alive = {}

ExtEvents(name) == {n \in DOMAIN ext.out : ext.out[n].name = name}

C19_ExternalHandles ==
  /\ \A h \in ext.handles : h.client \in ext.connected
  /\ ext.browserClient # 0 => ext.browserClient \in ext.connected
  /\ \A n \in ExtEvents("createHandle") :
       /\ ext.out[n].arg = "null" <=> ext.out[n].client = 0
       /\ ext.out[n].arg = "handle" =>
            \E h \in ext.handles : h.client = ext.out[n].client
  /\ \A n \in ExtEvents("connect") : ext.out[n].handles = {}
  /\ \A n \in ExtEvents("disconnect") : ext.handles = {}

\* The connection of a client with an open handle has broken: the handle is
\* gone from the set.
C19_Witness ==
  /\ ext.handles = {}
  /\ \E n \in ExtEvents("disconnect") : ext.out[n].handles # {}

\* A connection attempt is scheduled or under way, or will be scheduled as
\* soon as the client that disconnected has been closed.
Reconnecting ==
  \/ ext.reconnectTimeout
  \/ ext.connects # {}
  \/ \E c \in ext.closings : c.by = "disconnect"
  \/ \E n \in DOMAIN ext.gq : ext.gq[n] = ExtTask("client_closed", "disconnect")

\* C20: a failed connection attempt (the first one of start() included)
\* arms the reconnect timer with the next delay of the backoff; a provider
\* that is Running without a client is always on its way to a new attempt,
\* so that it gets a client again or is closed; the backoff is reset when a
\* connection succeeds; no timer is armed once the provider closes.
C20_Reconnect ==
  /\ [](/\ \A n \in ExtEvents("fault") :
             /\ ext.out[n].status \in {"starting", "running"}
             /\ ext.reconnectTimeout
             /\ ext.tries = ext.out[n].tries + 1
        /\ ext.status = "running" /\ ext.browserClient = 0 => Reconnecting
        /\ \A n \in ExtEvents("connect") : ext.out[n].tries = 0
        /\ ext.reconnectTimeout => ext.status \in {"starting", "running"})
  /\ (ext.status = "running" /\ ext.browserClient = 0)
       ~> (ext.browserClient # 0 \/ ext.status # "running")

\* The connection broke, an attempt to reconnect failed, and the next one
\* has succeeded: the provider is Running with a client and a fresh backoff.
C20_Witness ==
  /\ ext.status = "running"
  /\ ext.faults >= 2
  /\ ext.tries = 0
  /\ \E n \in ExtEvents("connect") : ext.out[n].arg = "reconnect"

\* ---------------------------------------------------------------------- \*
\* The CDP client and the status of a BrowserProcess                       *
\* ---------------------------------------------------------------------- \*

\* C16: at every point the embedding code can observe (between two runs and
\* inside the listener of every event) the CDP client of a BrowserProcess is
\* non-null exactly when the status is Running.
C16_ClientIffRunning ==
  /\ bp.client # 0 <=> bp.status = "running"
  /\ \A n \in DOMAIN bp.out :
       bp.out[n].client # 0 <=> bp.out[n].status = "running"

\* ---------------------------------------------------------------------- \*
\* start() on a process that is not Initial or Stopped                     *
\* ---------------------------------------------------------------------- \*

\* The run without the calls of start() that were refused.
WithoutStartCalls(q) ==
  [q EXCEPT !.out = SelectSeq(@, LAMBDA e : e.name # "start()"), !.react = 0]

StartInFaultHandler == [Quiet EXCEPT !.fault = "start"]

FaultStopped(n) ==
  \E i, j \in DOMAIN log :
    /\ n < i /\ i < j
    /\ log[i].name = "stopping" /\ log[j].name = "stop"
    /\ \A m \in (n + 1)..(j - 1) : log[m].name # "starting"

\* A fault in the log has not been followed by `stopping` and `stop` yet.
\* (A fault that has been followed by them stays so: the log only grows.)
FaultPending == \E n \in DOMAIN log : FaultAt(n) /\ ~FaultStopped(n)

\* C17: every `fault` event is eventually followed by a `stopping` event and
\* then a `stop` event with no `starting` in between, whether the stop is
\* the implicit stop of the fault or one that a listener requests inside the
\* `fault` handler.
C17_FaultThenStop == FaultPending ~> ~FaultPending

\* ---------------------------------------------------------------------- \*
\* The external provider after close()                                     *
\* ---------------------------------------------------------------------- \*

\* close() has been called on the provider x.
CloseCalled(x) == x.status \in {"closing", "closed"}

\* C21: once close() has been called on the external provider, whatever was
\* under way (the connection attempt of start(), a pending or running
\* reconnect), the provider never becomes Running, holds no browser client,
\* starts and schedules no connection attempt, closes the client that an
\* attempt under way obtains, and emits no `connect` or `start` event.
C21_NothingAfterClose ==
  /\ [](CloseCalled(ext) =>
          /\ ext.browserClient = 0
          /\ ~ext.reconnectTimeout
          /\ \A n \in ExtEvents("closing"), m \in DOMAIN ext.out :
               m > n => ext.out[m].name \notin {"connect", "start", "starting"})
  /\ [][CloseCalled(ext) =>
          /\ CloseCalled(ext')
          /\ ext'.connects \subseteq ext.connects
          /\ ext'.tries = ext.tries
          /\ ext'.connected \subseteq ext.connected \cup {c.client : c \in ext'.closings}
          /\ \A n \in DOMAIN ext'.out :
               ext'.out[n].name \notin {"connect", "start", "starting"}]_vars

\* A connection attempt that was under way when close() was called has
\* obtained a client, which is being closed.
C21_Witness ==
  /\ CloseCalled(ext)
  /\ \E c \in ext.closings : c.by \in {"startup", "reconnect"}

\* ---------------------------------------------------------------------- \*
\* A BrowserProcess after a requested stop                                 *
\* ---------------------------------------------------------------------- \*

\* C29: when a stop() call has resolved the process is Stopped, and it stays
\* Stopped until start() is called explicitly: no automatic restart follows,
\* also when stop() joined the stop of a fault or was called while the
\* restart delay was pending.  (In StopSpec start() is called once, before
\* any stop(): every later `starting` is an automatic one.)
C29_StoppedUntilStart ==
  \A n \in DOMAIN log :
    log[n].name = "stop()" =>
      /\ log[n].reason = "stopped"
      /\ \A m \in (n + 1)..Len(log) : log[m].name # "starting"
      /\ Len(log) = n => bp.status = "stopped"

\* ---------------------------------------------------------------------- \*
\* What a recycle stops                                                    *
\* ---------------------------------------------------------------------- \*

\* A call of recycleMain starts a recycle run in this step.
RecycleRunStarts == sv.recycleGuard = 0 /\ sv'.recycleGuard # 0

RenderSettled == tab.pc \in {"settled", "rejected"}

C23_StatusIffResponded ==
  tab.pc = "settled" =>
    (tab.result.hasStatus <=> tab.watcher.initialRequest.responded)

\* C24: when the page load timeout has elapsed before loadPage completed,
\* the result is Err{Timeout} if DOMContentLoaded had not fired or
\* allowPartialLoad is false, and otherwise Ok with completion
\* PageLoadTimeout, whatever loadPage does after the timeout.
C24_TimeoutOutcome ==
  tab.pc = "settled" /\ tab.timedOut =>
    IF ~tab.dclAtTimeout \/ ~tab.options.allowPartialLoad
    THEN ~tab.result.ok /\ tab.result.type = "Timeout"
    ELSE tab.result.ok /\ tab.result.completion = "PageLoadTimeout"

\* C25: the status of the initial response is accepted exactly if
\* expectedStatusCodes is unset, is empty or contains the status; when it
\* is not accepted the completion trigger is never awaited and the result
\* is Err{InitialRequestStatus}.
C25_StatusAccepted ==
  LET e == tab.options.expectedStatusCodes
  IN  /\ tab.statusOk # "unchecked" =>
           (tab.statusOk = "accepted" <=>
              \/ ~e.isSet
              \/ e.codes = {}
              \/ tab.watcher.initialRequest.statusCode \in e.codes)
      /\ tab.statusOk = "rejected" =>
           /\ tab.load # "trigger"
           /\ tab.completion \notin CompletionTriggerKind
           /\ tab.pc = "settled" =>
                ~tab.result.ok /\ tab.result.type = "InitialRequestStatus"

\* ---------------------------------------------------------------------- \*
\* The HTML of a page that signals completion                              *
\* ---------------------------------------------------------------------- \*

\* C27: with a Variable (Event) completion trigger the HTML of an Ok result
\* whose completion is the signal of the page is the DOM at the instant of
\* the signal, and no Ok result contains a mutation the page made after
\* the signal.
C27_HtmlAtSignal ==
  tab.pc = "settled" /\ tab.result.ok /\ tab.options.trigger = "Variable" =>
    /\ tab.result.completion = "Variable" /\ ~tab.timedOut =>
         tab.result.html = tab.domAtSignal
    /\ tab.domAtSignal # NoHtml => tab.result.html <= tab.domAtSignal

\* A render has completed by the signal of a page that mutated its DOM
\* after the signal.
C27_Witness ==
  /\ tab.pc = "settled" /\ tab.result.ok
  /\ tab.result.completion = "Variable" /\ ~tab.timedOut
  /\ tab.page.dom > tab.domAtSignal

\* ---------------------------------------------------------------------- \*
\* RenderManager.render without a browser                                  *
\* ---------------------------------------------------------------------- \*

\* C26: whenever the provider produces no handle - it is not running, or
\* it is running without a live browser - RenderManager.render returns
\* Err{BrowserUnavailable} and does not throw.
C26_UnavailableNotThrown ==
  /\ sv # <<>> =>
       \A n \in SupEvents("createHandle") :
         sv.out[n].arg # "handle" => managerRender(sv.out[n].arg) = "BrowserUnavailable"
  /\ ext # <<>> =>
       \A n \in ExtEvents("createHandle") :
         ext.out[n].arg # "handle" => managerRender(ext.out[n].arg) = "BrowserUnavailable"

\* ---------------------------------------------------------------------- \*
\* When the requests trigger completes                                     *
\* ---------------------------------------------------------------------- \*

\* C28: wait() of the requests trigger resolves only in a step after which
\* DOMContentLoaded has fired, no request is in flight and the last quiet
\* period has run its full length with no request started since; and a
\* request that starts while the quiet-period timer is armed cancels it.
C28_ResolvesWhenQuiet ==
  [][/\ (tab.wait # "resolved" /\ tab'.wait = "resolved") =>
          /\ tab'.domContentLoadedSource
          /\ tab'.pendingRequests = {}
          /\ tab'.quiet
     /\ tab'.started # tab.started => ~tab'.timeout]_vars

\* ---------------------------------------------------------------------- \*
\* The order in which listeners are called                                 *
\* ---------------------------------------------------------------------- \*

\* The names of the lifecycle events in the sequence of records out.
EventNames(out) ==
  LET ev == SelectSeq(out, LAMBDA e : e.name \in {"starting", "start", "fault", "stopping", "stop"})
  IN  [i \in 1..Len(ev) |-> ev[i].name]

\* C31: every listener is called with the lifecycle events in the order in
\* which they were emitted, also the listeners that were added after a
\* listener that calls stop() or start() from inside its handler.
C31_ListenersSeeEmissionOrder == bp.seen = EventNames(bp.out)

\* ---------------------------------------------------------------------- \*
\* stop() on a Stopped process                                             *
\* ---------------------------------------------------------------------- \*

\* The number of events called name among the first n entries of the log.
LogCount(name, n) == Cardinality({i \in 1..n : log[i].name = name})

\* C32: stop() on a Stopped process changes neither status, version nor
\* client and emits no event, neither in the call nor when it resumes: in
\* every prefix of the events emitted so far there are at least as many
\* `stopping` as `stop`, each `stop` having the `stopping` of its own run
\* before it.
C32_StopOnStoppedSilent ==
  /\ bp.status = "stopped" =>
       LET q == stopImpl(Fresh(bp), "requested", "stop", FALSE, Quiet)
       IN  /\ q.status = bp.status
           /\ q.version = bp.version
           /\ q.client = bp.client
           /\ q.out = <<>>
  /\ \A n \in DOMAIN log : LogCount("stop", n) <= LogCount("stopping", n)

\* ---------------------------------------------------------------------- \*
\* A Running process is the Main                                           *
\* ---------------------------------------------------------------------- \*

\* C33: while the supervisor is Running, between two runs of its code, the
\* process of the Standby is not Running while the process of the Main is
\* not; so createHandle on a Running supervisor returns a handle whenever
\* one of the two processes is Running.
C33_RunningStandbyPromoted ==
  /\ sv.status = "running" =>
       ~(/\ sv.inst[sv.instances[2]].process.status = "running"
         /\ sv.inst[sv.instances[1]].process.status # "running")
  /\ \A n \in SupEvents("createHandle") :
       (/\ sv.status = "running"
        /\ \E i \in 1..2 : sv.inst[i].process.status = "running") =>
         sv.out[n].arg = "handle"

\* ---------------------------------------------------------------------- \*
\* The CDP clients of the start attempts                                   *
\* ---------------------------------------------------------------------- \*

\* The CDP clients that are connected to a living browser process and that
\* are neither the client of the BrowserProcess nor in the hands of a stop
\* body that closes them.
UnreferencedClients(p) ==
  {k \in p.connected \cap p.alive :
     /\ p.client # k
     /\ \A b \in p.bodies : b.client # k}

\* C34: every CDP client that a start attempt has created is the client of
\* the process or is closed: a start that stop() has superseded while its
\* connection was being established leaves no open client that nothing
\* refers to.
C34_NoUnreferencedClient == UnreferencedClients(bp) = {}

\* ---------------------------------------------------------------------- \*
\* RequestWatcher                                                          *
\* ---------------------------------------------------------------------- \*

\* The request ids of the network events are 1..MaxRequestIds.
MaxRequestIds == 2

RequestIds == 1..MaxRequestIds

ErrorTexts == {"net::ERR_FAILED", "net::ERR_ABORTED"}

\* The parameters of a network event that the handlers read: of
\* Network.requestWillBeSent the id and whether it carries a
\* redirectResponse, of Network.responseReceived the id and the status of the
\* response, of Network.loadingFailed the id and the errorText.
NetworkEvent(requestId, redirectResponse, status, errorText) ==
  [requestId |-> requestId, redirectResponse |-> redirectResponse,
   status |-> status, errorText |-> errorText]

\* No entry of the _requests map for the id.
NoRequest(id) ==
  [id |-> id, readyState |-> "none", statusCode |-> 0, errorText |-> ""]

\* A RequestWatcher after construction.  requests: the _requests map;
\* initialRequest: the id of _initialRequest, 0 for null; resolved: the
\* values that _initialRequestSource.resolve has been called with, the first
\* of them being the value of initialRequestPromise; clientSubs: the
\* subscriptions to the client that are in place.
NewRequestWatcher(onlyInitial) ==
  [options |-> [onlyInitial |-> onlyInitial],
   state |-> "initial",
   requests |-> [id \in RequestIds |-> NoRequest(id)],
   initialRequest |-> 0,
   resolved |-> <<>>,
   clientSubs |-> {}]

\* watch(client)
watch(this) ==
  IF this.state # "initial" THEN this
  ELSE [this EXCEPT !.clientSubs = {"onHttpRequest", "onHttpResponse",
                                    "onHttpFinished", "onHttpFailed"},
                    !.state = "watching"]

\* close() of the watcher
watcherClose(this) ==
  IF this.state = "closed" THEN this
  ELSE [this EXCEPT !.clientSubs = {}, !.state = "closed"]

\* if (this._options.onlyInitial) this._clientSubs[name]?.unsubscribe()
unsubscribeOnlyInitial(this, name) ==
  IF this.options.onlyInitial THEN [this EXCEPT !.clientSubs = @ \ {name}] ELSE this

\* onRequestDone(request) of the watcher
watcherRequestDone(this, request) ==
  IF request.id = this.initialRequest
  THEN [this EXCEPT !.resolved = Append(@, request)]
  ELSE this

onHttpRequest(this, params) ==
  IF params.redirectResponse THEN this
  ELSE Then(unsubscribeOnlyInitial(this, "onHttpRequest"), LAMBDA w :
         IF w.requests[params.requestId].readyState # "none" THEN w
         ELSE [w EXCEPT !.requests[params.requestId].readyState = "pending",
                        !.initialRequest = IF @ = 0 THEN params.requestId ELSE @])

onHttpResponse(this, params) ==
  LET request == this.requests[params.requestId]
  IN  IF request.readyState = "none" THEN this
      ELSE Then(unsubscribeOnlyInitial(this, "onHttpResponse"), LAMBDA w :
             IF request.readyState # "pending" THEN w
             ELSE [w EXCEPT !.requests[params.requestId] =
                     [request EXCEPT !.readyState = "response",
                                     !.statusCode = params.status]])

\* onHttpFinished without the check of the readyState.
onHttpFinishedAnyState(this, params) ==
  LET request == this.requests[params.requestId]
  IN  IF request.readyState = "none" THEN this
      ELSE Then(unsubscribeOnlyInitial(this, "onHttpFinished"), LAMBDA w :
             Then([request EXCEPT !.readyState = "loaded"], LAMBDA loadedRequest :
               watcherRequestDone(
                 [w EXCEPT !.requests[params.requestId] = loadedRequest],
                 loadedRequest)))

onHttpFinished(this, params) ==
  LET request == this.requests[params.requestId]
  IN  IF request.readyState = "none" THEN this
      ELSE Then(unsubscribeOnlyInitial(this, "onHttpFinished"), LAMBDA w :
             IF request.readyState # "response" THEN w
             ELSE Then([request EXCEPT !.readyState = "loaded"], LAMBDA loadedRequest :
                    watcherRequestDone(
                      [w EXCEPT !.requests[params.requestId] = loadedRequest],
                      loadedRequest)))

onHttpFailed(this, params) ==
  LET request == this.requests[params.requestId]
  IN  IF request.readyState = "none" THEN this
      ELSE Then(unsubscribeOnlyInitial(this, "onHttpFailed"), LAMBDA w :
             IF request.readyState \notin {"pending", "response"} THEN w
             ELSE Then([request EXCEPT !.readyState = "failed",
                                       !.errorText = params.errorText],
                       LAMBDA failedRequest :
                    watcherRequestDone(
                      [w EXCEPT !.requests[params.requestId] = failedRequest],
                      failedRequest)))

\* The watcher after the client has emitted the network event: its handler
\* runs when its subscription is in place.
handle(this, name, params) ==
  IF name \notin this.clientSubs THEN this
  ELSE IF name = "onHttpRequest" THEN onHttpRequest(this, params)
  ELSE IF name = "onHttpResponse" THEN onHttpResponse(this, params)
  ELSE IF name = "onHttpFinished" THEN onHttpFinished(this, params)
  ELSE onHttpFailed(this, params)

\* get initialRequest() of the watcher: null (NoRequest(0)) until the
\* initial request is Loaded or Failed.
watcherInitialRequest(this) ==
  IF this.initialRequest = 0 THEN NoRequest(0)
  ELSE IF this.requests[this.initialRequest].readyState \notin {"loaded", "failed"}
       THEN NoRequest(0)
       ELSE this.requests[this.initialRequest]

\* Two watchers on one client, a full one and one in only-initial mode: the
\* client calls the handlers of both with each of its events, from watch()
\* to close().  last: the name of the last event.
WatcherInit ==
  /\ bp = NewBrowserProcess(CHOOSE o \in BrowserProcessOptions : TRUE)
  /\ log = <<>>
  /\ sv = <<>>
  /\ ext = <<>>
  /\ tab = [full |-> NewRequestWatcher(FALSE), only |-> NewRequestWatcher(TRUE),
            last |-> "none"]

\* The two watchers after the client has emitted the network event.
emitted(t, name, params) ==
  [full |-> handle(t.full, name, params),
   only |-> handle(t.only, name, params),
   last |-> name]

\* watch(client) of both watchers
WatcherWatch ==
  /\ tab.full.state = "initial"
  /\ TabStep([full |-> watch(tab.full), only |-> watch(tab.only), last |-> "watch"])

\* Network.requestWillBeSent
WatcherRequestWillBeSent ==
  /\ tab.full.state = "watching"
  /\ \E id \in RequestIds, redirectResponse \in BOOLEAN :
       TabStep(emitted(tab, "onHttpRequest", NetworkEvent(id, redirectResponse, 0, "")))

\* Network.responseReceived
WatcherResponseReceived ==
  /\ tab.full.state = "watching"
  /\ \E id \in RequestIds, status \in StatusCodes :
       TabStep(emitted(tab, "onHttpResponse", NetworkEvent(id, FALSE, status, "")))

\* Network.loadingFinished
WatcherLoadingFinished ==
  /\ tab.full.state = "watching"
  /\ \E id \in RequestIds :
       TabStep(emitted(tab, "onHttpFinished", NetworkEvent(id, FALSE, 0, "")))

\* Network.loadingFailed
WatcherLoadingFailed ==
  /\ tab.full.state = "watching"
  /\ \E id \in RequestIds, errorText \in ErrorTexts :
       TabStep(emitted(tab, "onHttpFailed", NetworkEvent(id, FALSE, 0, errorText)))

\* close() of both watchers
WatcherClose ==
  /\ tab.full.state # "closed"
  /\ TabStep([full |-> watcherClose(tab.full), only |-> watcherClose(tab.only),
              last |-> "close"])

WatcherNext ==
  \/ WatcherWatch
  \/ WatcherRequestWillBeSent
  \/ WatcherResponseReceived
  \/ WatcherLoadingFinished
  \/ WatcherLoadingFailed
  \/ WatcherClose

WatcherSpec == WatcherInit /\ [][WatcherNext]_vars

\* The two watchers of WatcherSpec.
Watchers == {tab.full, tab.only}

\* The change of a readyState that an event of the name brings about.
ReadyStateEdge(from, to, name) ==
  \/ to = from
  \/ from = "none" /\ to = "pending" /\ name = "onHttpRequest"
  \/ from = "pending" /\ to = "response" /\ name = "onHttpResponse"
  \/ from = "response" /\ to = "loaded" /\ name = "onHttpFinished"
  \/ from \in {"pending", "response"} /\ to = "failed" /\ name = "onHttpFailed"

\* The readyStates in which the handler of the name acts on a record.
AllowedIn(name) ==
  IF name = "onHttpResponse" THEN {"pending"}
  ELSE IF name = "onHttpFinished" THEN {"response"}
  ELSE {"pending", "response"}

\* The initial request of the watcher is Loaded or Failed.
InitialRequestDone(w) ==
  /\ w.initialRequest # 0
  /\ w.requests[w.initialRequest].readyState \in {"loaded", "failed"}

\* An event for an unknown id, or one that the state of its record does not
\* allow, leaves the records, the initial request and the promise alone (and
\* the whole watcher when it is not in only-initial mode).
C35_Ignored(w) ==
  \A name \in {"onHttpResponse", "onHttpFinished", "onHttpFailed"},
     id \in RequestIds, status \in StatusCodes, errorText \in ErrorTexts :
    w.requests[id].readyState \notin AllowedIn(name) =>
      LET q == handle([w EXCEPT !.clientSubs = @ \cup {name}], name,
                      NetworkEvent(id, FALSE, status, errorText))
      IN  /\ q.requests = w.requests
          /\ q.initialRequest = w.initialRequest
          /\ q.resolved = w.resolved
          /\ ~w.options.onlyInitial => q.clientSubs = w.clientSubs \cup {name}

C36_OnlyInitialAsFull ==
  /\ tab.only.initialRequest = tab.full.initialRequest
  /\ tab.only.resolved = tab.full.resolved
  /\ watcherInitialRequest(tab.only) = watcherInitialRequest(tab.full)

\* ---------------------------------------------------------------------- \*
\* The delays of the recycle timer                                         *
\* ---------------------------------------------------------------------- \*

\* defaults.browser.provider.internal
DefaultAutoRecycleAfterUptimeMillis == 1800000

DefaultAutoRecycleRetryAfterMillis == 10000

\* An option that is given, and one that is left undefined.
Given(v) == [isSet |-> TRUE, value |-> v]

NotGiven == [isSet |-> FALSE, value |-> 0]

\* a ?? b
Coalesce(a, b) == IF a.isSet THEN a.value ELSE b

\* The values of the two recycle options that are tried, in milliseconds.
RecycleMillis == {NotGiven, Given(1000), Given(3000)}

\* The uptime of the Main advances in steps of 1000 ms up to MaxUptimeSteps
\* steps.
MaxUptimeSteps == 4

\* The options that the constructor of BrowserSupervisor keeps, as far as
\* the recycle timer reads them.
supervisorOptions(options) ==
  [autoRecycleAfterUptimeMillis |->
     Coalesce(options.autoRecycleAfterUptimeMillis, DefaultAutoRecycleAfterUptimeMillis),
   autoRecycleRetryAfterMillis |->
     Coalesce(options.autoRecycleAfterUptimeMillis, DefaultAutoRecycleRetryAfterMillis)]

Max(a, b) == IF a >= b THEN a ELSE b

\* The delay of the timer that scheduleMainRecycle(timeoutMillis) creates on
\* a Running supervisor with autoRecycle and no recycling run in progress.
recycleTimeoutMillis(options, timeoutMillis, mainUptimeMillis) ==
  Coalesce(timeoutMillis, Max(options.autoRecycleAfterUptimeMillis - mainUptimeMillis, 0))

\* The callback of the recycle timer after `await this.recycleMain()`.
recycleTimerResumes(t, result) ==
  IF result = "StandbyUnavailable"
  THEN [t EXCEPT !.result = result,
                 !.timeoutMillis = Given(recycleTimeoutMillis(t._options,
                                     Given(t._options.autoRecycleRetryAfterMillis),
                                     t.mainUptimeMillis))]
  ELSE [t EXCEPT !.result = result,
                 !.timeoutMillis = Given(recycleTimeoutMillis(t._options, NotGiven,
                                                             t.mainUptimeMillis))]

\* A Running supervisor made with the options: the options it was given and
\* those it keeps, the uptime of its Main, the result of the last run of the
\* recycle timer and the delay of the timer created after it.
RecycleTimerInit ==
  /\ bp = NewBrowserProcess(CHOOSE o \in BrowserProcessOptions : TRUE)
  /\ log = <<>>
  /\ sv = <<>>
  /\ ext = <<>>
  /\ \E a \in RecycleMillis, r \in RecycleMillis :
       LET options == [autoRecycleAfterUptimeMillis |-> a,
                       autoRecycleRetryAfterMillis |-> r]
       IN  tab = [options |-> options, _options |-> supervisorOptions(options),
                  mainUptimeMillis |-> 0, result |-> "none", timeoutMillis |-> NotGiven]

\* Time passes while the Main is Running.
RecycleTimerUptime ==
  /\ tab.mainUptimeMillis < MaxUptimeSteps * 1000
  /\ TabStep([tab EXCEPT !.mainUptimeMillis = @ + 1000])

\* The recycle timer fires and its recycling run returns.
RecycleTimerRun ==
  /\ \E result \in {"StandbyUnavailable", "Canceled", "Recycled"} :
       TabStep(recycleTimerResumes(tab, result))

RecycleTimerNext ==
  \/ RecycleTimerUptime
  \/ RecycleTimerRun

RecycleTimerSpec == RecycleTimerInit /\ [][RecycleTimerNext]_vars

\* C37: the timer created after a recycling run that returned
\* StandbyUnavailable has the delay autoRecycleRetryAfterMillis that the
\* supervisor was given, or the default of that option, whatever
\* autoRecycleAfterUptimeMillis is.
C37_RetryDelay ==
  tab.result = "StandbyUnavailable" =>
    tab.timeoutMillis =
      Given(Coalesce(tab.options.autoRecycleRetryAfterMillis,
                     DefaultAutoRecycleRetryAfterMillis))

\* ---------------------------------------------------------------------- \*
\* TriesBackoff                                                            *
\* ---------------------------------------------------------------------- \*

\* A TriesBackoff is made of 1 to MaxEntries entries with thresholds
\* 0..MaxThreshold, and nextTry is called up to MaxTries times between two
\* resets.
MaxEntries == 2

MaxThreshold == 3

MaxTries == 4

TriesBackoffEntry == [tries : 0..MaxThreshold, millis : {100, 1000}]

TriesBackoffEntries ==
  UNION {[1..n -> TriesBackoffEntry] : n \in 1..MaxEntries}

\* entries with e put behind the last entry whose tries are not greater.
RECURSIVE Insert(_, _)
Insert(entries, e) ==
  IF entries = <<>> THEN <<e>>
  ELSE IF entries[Len(entries)].tries <= e.tries THEN Append(entries, e)
  ELSE Append(Insert(SubSeq(entries, 1, Len(entries) - 1), e), entries[Len(entries)])

\* entries.slice().sort((a, b) => Math.sign(a.tries - b.tries)): a stable
\* sort by tries.
RECURSIVE SortByTries(_)
SortByTries(entries) ==
  IF entries = <<>> THEN <<>>
  ELSE Insert(SortByTries(SubSeq(entries, 1, Len(entries) - 1)), entries[Len(entries)])

\* new TriesBackoff(entries).  millis: the value that the last call of
\* nextTry returned; last: the last call.
NewTriesBackoff(entries) ==
  [entries |-> SortByTries(entries), index |-> 0, tries |-> 0,
   millis |-> 0, last |-> "new"]

\* getMillis(); the array _entries is indexed from 0.
getMillis(this) == this.entries[this.index + 1].millis

nextTry(this) ==
  Then([this EXCEPT !.tries = @ + 1], LAMBDA b :
    Then(IF /\ b.index < Len(b.entries) - 1
            /\ b.entries[b.index + 2].tries >= b.tries
         THEN [b EXCEPT !.index = @ + 1]
         ELSE b, LAMBDA b1 :
      [b1 EXCEPT !.millis = getMillis(b1), !.last = "nextTry"]))

\* reset() of the backoff
backoffReset(this) ==
  [this EXCEPT !.tries = 0, !.index = 0, !.last = "reset"]

BackoffInit ==
  /\ bp = NewBrowserProcess(CHOOSE o \in BrowserProcessOptions : TRUE)
  /\ log = <<>>
  /\ sv = <<>>
  /\ ext = <<>>
  /\ \E entries \in TriesBackoffEntries : tab = NewTriesBackoff(entries)

\* nextTry()
BackoffNextTry ==
  /\ tab.tries < MaxTries
  /\ TabStep(nextTry(tab))

\* reset()
BackoffReset ==
  /\ tab.last # "reset"
  /\ TabStep(backoffReset(tab))

BackoffNext ==
  \/ BackoffNextTry
  \/ BackoffReset

BackoffSpec == BackoffInit /\ [][BackoffNext]_vars

\* The entry that the n-th try is to use: the last one whose threshold is at
\* most n, the first one if there is none (counted from 0).
EntryOfTry(entries, n) ==
  LET S == {i \in 1..Len(entries) : entries[i].tries <= n}
  IN  IF S = {} THEN 0 ELSE (CHOOSE i \in S : \A j \in S : j <= i) - 1

\* C38: nextTry never moves on to an entry whose threshold is greater than
\* the number of tries made since construction or the last reset: the delay
\* it returns for the n-th try is that of the last entry whose threshold is
\* at most n, or of the first entry; reset goes back to the first entry and
\* to zero tries.
C38_DelayOfTry ==
  /\ tab.last = "nextTry" =>
       /\ tab.index > 0 => tab.entries[tab.index + 1].tries <= tab.tries
       /\ tab.millis = tab.entries[EntryOfTry(tab.entries, tab.tries) + 1].millis
  /\ tab.last = "reset" => tab.index = 0 /\ tab.tries = 0

\* ---------------------------------------------------------------------- \*
\* Stopwatch with its times                                                *
\* ---------------------------------------------------------------------- \*

\* process.hrtime.bigint() goes from 0 to MaxNow, and pause() is called on a
\* running stopwatch up to MaxPauses times.
MaxNow == 4

MaxPauses == 3

\* new Stopwatch(): _start and _end are null (NotGiven).
NewTimedStopwatch ==
  [elapsedAccumulator |-> 0, start |-> NotGiven, end |-> NotGiven]

paused(this) == ~this.start.isSet

stopped(this) == this.end.isSet

running(this) == this.start.isSet /\ ~this.end.isSet

\* get elapsed(), read when process.hrtime.bigint() is now
elapsed(this, now) ==
  IF paused(this) THEN this.elapsedAccumulator
  ELSE this.elapsedAccumulator + Coalesce(this.end, now) - this.start.value

\* start()
timedStart(this, now) ==
  IF running(this) THEN this
  ELSE Then(IF stopped(this)
            THEN [this EXCEPT !.end = NotGiven, !.elapsedAccumulator = 0]
            ELSE this, LAMBDA w :
         [w EXCEPT !.start = Given(now)])

\* stop()
timedStop(this, now) ==
  IF ~stopped(this) THEN [this EXCEPT !.end = Given(now)] ELSE this

\* pause()
timedPause(this, now) ==
  IF running(this)
  THEN [this EXCEPT !.elapsedAccumulator = @ + elapsed(this, now), !.start = NotGiven]
  ELSE this

\* reset()
timedReset(this) ==
  [this EXCEPT !.start = NotGiven, !.end = NotGiven, !.elapsedAccumulator = 0]

\* A stopwatch and the clock.  total: the time for which the stopwatch has
\* been running since it was last reset, by reset() or by start() after
\* stop(); pauses: the number of calls of pause() that found it running.
StopwatchInit ==
  /\ bp = NewBrowserProcess(CHOOSE o \in BrowserProcessOptions : TRUE)
  /\ log = <<>>
  /\ sv = <<>>
  /\ ext = <<>>
  /\ tab = [stopwatch |-> NewTimedStopwatch, now |-> 0, total |-> 0, pauses |-> 0]

\* Time passes.
StopwatchTick ==
  /\ tab.now < MaxNow
  /\ TabStep([tab EXCEPT !.now = @ + 1,
                         !.total = IF running(tab.stopwatch) THEN @ + 1 ELSE @])

\* start()
StopwatchStarts ==
  /\ ~running(tab.stopwatch)
  /\ TabStep([tab EXCEPT !.stopwatch = timedStart(@, tab.now),
                         !.total = IF stopped(tab.stopwatch) THEN 0 ELSE @])

\* stop()
StopwatchStops ==
  /\ ~stopped(tab.stopwatch)
  /\ TabStep([tab EXCEPT !.stopwatch = timedStop(@, tab.now)])

\* pause()
StopwatchPauses ==
  /\ running(tab.stopwatch)
  /\ tab.pauses < MaxPauses
  /\ TabStep([tab EXCEPT !.stopwatch = timedPause(@, tab.now), !.pauses = @ + 1])

\* reset()
StopwatchResets ==
  /\ tab.stopwatch # NewTimedStopwatch
  /\ TabStep([tab EXCEPT !.stopwatch = timedReset(@), !.total = 0])

StopwatchNext ==
  \/ StopwatchTick
  \/ StopwatchStarts
  \/ StopwatchStops
  \/ StopwatchPauses
  \/ StopwatchResets

StopwatchSpec == StopwatchInit /\ [][StopwatchNext]_vars

\* C40: after any calls of start, pause and stop, elapsed is the time for
\* which the stopwatch has been running since it was last reset: it stands
\* still while the stopwatch is paused or stopped, and the time of an earlier
\* running interval is in it once, however often the stopwatch has been
\* paused and started again.
C40_ElapsedIsRunningTime == elapsed(tab.stopwatch, tab.now) = tab.total

\* C39: at most one execution of the body of the stop procedure is in
\* progress at any time, whatever the interleaving of start(), stop() and
\* faults: no body starts while the body of an earlier run is closing the
\* client or killing the OS process (a body that starts on a process that is
\* not Stopped emits `stopping`).
C39_OneStopBody ==
  \A i \in DOMAIN bp.out : bp.out[i].name = "stopping" => bp.out[i].active = 0

====
